---- MODULE Spec2Model ----
(***************************************************************************)
(* A model of OpenImageIO's simd.h: the mask4 and int4 vector types on     *)
(* each build-time backend (no SIMD, SSE2, SSSE3, SSE4.x).                 *)
(*                                                                         *)
(* A 32-bit lane is the set of the positions of its one bits, a subset of *)
(* 0..31 (bit 0 the least significant), so that no lane value is ever      *)
(* truncated.  The SSE intrinsics are modelled on the bits (carry-lookahead *)
(* adder, shift-and-add multiplier, bit moves); C's scalar int operations  *)
(* are modelled arithmetically on 8- and 16-bit limbs, modulo 2^32.        *)
(***************************************************************************)
EXTENDS Integers, Sequences, FiniteSets, TLC

VARIABLES
    simd_sse,     \* OIIO_SIMD_SSE of the build: 0 (not defined), 2, 3 or 4
    char_signed,  \* whether the build's plain char is a signed type
    m,            \* SpecMask: the mask4 object the client operates on
    op,           \* Spec: the operation that was called ("" before the call)
    x, y,         \* Spec: the vector operands of the call
    n,            \* Spec: the scalar operand (shift count, rotation)
    bools,        \* Spec: the bool operands of mask4(bool,bool,bool,bool)
    mem,          \* Spec: the array of narrow integers a load reads
    res,          \* Spec: the vector the call returned
    sres,         \* Spec: the 32-bit scalar the call returned
    bres,         \* Spec: the bool the call returned
    idx,          \* Spec: the template arguments of the call (lane indices)
    arg,          \* Spec: the scalar operand a call inserts
    dst0, dst,    \* Spec: the memory a store writes to, before and after the call
    reads,        \* Spec: the elements of memory a load of floats read
    mat0, mat,    \* Spec: the matrix44 a call is made on, before and after the call
    tmat,         \* Spec: the matrix44 the call returned
    nmat,         \* Spec: the second matrix of the call, its argument or the
                  \* result of the call before
    args,         \* SpecParallel: the roi and nthreads parallel_image was called with
    threads_attribute, \* SpecParallel: the global "threads" attribute
    pc,           \* SpecParallel: where the calling thread is in parallel_image
    nthreads,     \* SpecParallel: the parameter nthreads
    roi,          \* SpecParallel: the parameter roi
    locals,       \* SpecParallel: blocksize, roi_ybegin, roi_yend and i
    threads,      \* SpecParallel: the thread_group, each thread with the roi
                  \* it was created with and how far it is
    joined,       \* SpecParallel: how many threads join_all has joined
    calls,        \* SpecParallel: the invocations of f: the roi, the thread
                  \* (0 the calling one) and whether f has returned
    macro,        \* SpecDispatch: the dispatch macro expanded, the types it
                  \* is given and what func does when called
    R, Rtmp,      \* SpecDispatch: the result image and the temporary
    ret,          \* SpecDispatch: the macro's ret
    invoked       \* SpecDispatch: the specializations of func invoked, each
                  \* with the image passed as its first argument

vars ==
    <<simd_sse, char_signed, m, op, x, y, n, bools, mem, res, sres, bres,
      idx, arg, dst0, dst, reads, mat0, mat, tmat, nmat,
      args, threads_attribute, pc, nthreads, roi, locals, threads, joined, calls,
      macro, R, Rtmp, ret, invoked>>

-----------------------------------------------------------------------------
(* Lanes and 32-bit words *)

elements == 4
WordBits == 32
ShortBits == 16
CharBits == 8

\* The elements of memory modelled after the ones a store may write.
GuardElements == 2

Lanes == 0 .. elements - 1
Bit == 0 .. WordBits - 1

\* 2^k for k <= 30, from a table computed once.
RECURSIVE Power2(_)
Power2(k) == IF k = 0 THEN 1 ELSE 2 * Power2(k - 1)
Pow2Table == [k \in 0 .. WordBits - 2 |-> Power2(k)]
Pow2(k) == Pow2Table[k]

\* The one bits of a non-negative integer v < 2^w, w <= 31.
NatBits(v, w) == {i \in 0 .. w - 1 : (v \div Pow2(i)) % 2 = 1}

\* The unsigned value of bits lo .. lo+w-1 of a word (w <= 30).
RECURSIVE Field(_, _, _)
Field(a, lo, w) ==
    IF w = 0 THEN 0
    ELSE (IF lo \in a THEN 1 ELSE 0) + 2 * Field(a, lo + 1, w - 1)

Zero32 == {}
Ones32 == Bit
SignBit == WordBits - 1

\* The int literal v as a 32-bit two's-complement word.
Int32(v) ==
    IF v >= 0 THEN NatBits(v, WordBits - 1)
    ELSE Bit \ NatBits(-(v + 1), WordBits - 1)

\* The value of a word read as a (signed) int.
IntVal(a) ==
    IF SignBit \in a THEN -(Field(Bit \ a, 0, WordBits - 1)) - 1
    ELSE Field(a, 0, WordBits - 1)

\* Signed a < b, as a comparator decides it: on the sign bits when they
\* differ, else on the highest bit in which a and b differ.
SignedLess(a, b) ==
    LET d == (a \ b) \cup (b \ a)
        h == CHOOSE i \in d : \A j \in d : j <= i
    IN d # {} /\ (IF h = SignBit THEN h \in a ELSE h \in b)

V4(a, b, c, d) ==
    [i \in Lanes |-> CASE i = 0 -> a [] i = 1 -> b [] i = 2 -> c [] OTHER -> d]

Splat(a) == [i \in Lanes |-> a]

-----------------------------------------------------------------------------
(* C's int arithmetic on one lane: the result modulo 2^32, computed on     *)
(* 16-bit and 8-bit limbs (every intermediate value stays below 2^31).     *)

Limb16 == Pow2(ShortBits)
Limb8 == Pow2(CharBits)

\* The bits of a moved up by k positions.
Up(a, k) == {i + k : i \in a}

\* The word whose low and high halves are the 16-bit values lo and hi.
Halves(lo, hi) == NatBits(lo, ShortBits) \cup Up(NatBits(hi, ShortBits), ShortBits)

Lo16(a) == Field(a, 0, ShortBits)
Hi16(a) == Field(a, ShortBits, ShortBits)

\* a + b
c_add(a, b) ==
    LET lo == Lo16(a) + Lo16(b)
        hi == Hi16(a) + Hi16(b) + lo \div Limb16
    IN Halves(lo % Limb16, hi % Limb16)

\* a - b, as a + (2^32 - b)
c_sub(a, b) ==
    LET lo == Lo16(a) + (Limb16 - 1 - Lo16(b)) + 1
        hi == Hi16(a) + (Limb16 - 1 - Hi16(b)) + lo \div Limb16
    IN Halves(lo % Limb16, hi % Limb16)

\* a * b: schoolbook multiplication of the four bytes of each operand,
\* keeping the four low bytes of the product.
Byte(a, k) == Field(a, CharBits * k, CharBits)

Column(a, b, k) ==
    LET RECURSIVE Acc(_)
        Acc(i) == IF i > k THEN 0
                  ELSE (IF i < 4 /\ k - i < 4 THEN Byte(a, i) * Byte(b, k - i) ELSE 0)
                       + Acc(i + 1)
    IN Acc(0)

RECURSIVE Carry(_, _, _)
Carry(a, b, k) == IF k < 0 THEN 0 ELSE (Column(a, b, k) + Carry(a, b, k - 1)) \div Limb8

ProductByte(a, b, k) == (Column(a, b, k) + Carry(a, b, k - 1)) % Limb8

c_mul(a, b) ==
    UNION { Up(NatBits(ProductByte(a, b, k), CharBits), CharBits * k) : k \in 0 .. 3 }

\* a << bits, a >> bits (arithmetic, as every supported compiler defines it
\* for a negative int) and (unsigned)a >> bits, for bits < 32.
c_shl(a, bits) == {i + bits : i \in a} \cap Bit
c_shr(a, bits) == {i - bits : i \in a} \cap Bit
c_sar(a, bits) ==
    c_shr(a, bits) \cup (IF SignBit \in a THEN {i \in Bit : i + bits >= WordBits} ELSE {})

\* A scalar shift by 32 or more is undefined in C: the build either masks
\* the count to its low five bits (the x86 shift instructions) or shifts
\* every bit out (a constant-folded or ARM shift); count_masked says which.
c_shl_ub(a, bits, count_masked) ==
    IF bits < WordBits THEN c_shl(a, bits)
    ELSE IF count_masked THEN c_shl(a, bits % WordBits) ELSE Zero32

c_sar_ub(a, bits, count_masked) ==
    IF bits < WordBits THEN c_sar(a, bits)
    ELSE IF count_masked THEN c_sar(a, bits % WordBits) ELSE c_sar(a, WordBits - 1)

c_shr_ub(a, bits, count_masked) ==
    IF bits < WordBits THEN c_shr(a, bits)
    ELSE IF count_masked THEN c_shr(a, bits % WordBits) ELSE Zero32

-----------------------------------------------------------------------------
(* The SSE intrinsics simd.h uses on mask4 and int4, on the bits of the    *)
(* 128-bit register (four 32-bit lanes, lane 0 the lowest).                *)

mm_setzero == Splat(Zero32)
mm_set1_epi32(a) == Splat(a)
\* _mm_set_epi32 takes the highest lane first.
mm_set_epi32(e3, e2, e1, e0) == V4(e0, e1, e2, e3)

mm_and(a, b) == [l \in Lanes |-> a[l] \cap b[l]]
mm_or(a, b) == [l \in Lanes |-> a[l] \cup b[l]]
mm_xor(a, b) == [l \in Lanes |-> (a[l] \ b[l]) \cup (b[l] \ a[l])]

\* _mm_cmpeq_epi8: each byte all ones where the two bytes are equal.
ByteBits(k) == CharBits * k .. CharBits * k + CharBits - 1
mm_cmpeq_epi8(a, b) ==
    [l \in Lanes |->
        UNION { IF a[l] \cap ByteBits(k) = b[l] \cap ByteBits(k) THEN ByteBits(k) ELSE {} :
                k \in 0 .. 3 }]

mm_cmpeq_epi32(a, b) == [l \in Lanes |-> IF a[l] = b[l] THEN Ones32 ELSE Zero32]
mm_cmplt_epi32(a, b) ==
    [l \in Lanes |-> IF SignedLess(a[l], b[l]) THEN Ones32 ELSE Zero32]
mm_cmpgt_epi32(a, b) ==
    [l \in Lanes |-> IF SignedLess(b[l], a[l]) THEN Ones32 ELSE Zero32]

\* _mm_movemask_ps: bit l of the result is the sign bit of lane l.
mm_movemask_ps(a) ==
    LET RECURSIVE Acc(_)
        Acc(l) == IF l = elements THEN 0
                  ELSE (IF SignBit \in a[l] THEN Pow2(l) ELSE 0) + Acc(l + 1)
    IN Acc(0)

\* _MM_SHUFFLE(z, y, x, w) and _mm_shuffle_epi32: lane l of the result is
\* the lane of a that bits 2l, 2l+1 of the immediate name.
MM_SHUFFLE(fp3, fp2, fp1, fp0) == fp3 * 64 + fp2 * 16 + fp1 * 4 + fp0
mm_shuffle_epi32(a, imm) == [l \in Lanes |-> a[(imm \div Pow2(2 * l)) % 4]]
mm_moveldup_ps(a) == V4(a[0], a[0], a[2], a[2])
mm_movehdup_ps(a) == V4(a[1], a[1], a[3], a[3])
mm_movedup_pd(a) == V4(a[0], a[1], a[0], a[1])
mm_unpacklo_epi32(a, b) == V4(a[0], b[0], a[1], b[1])

mm_insert_epi32(a, val, i) == [a EXCEPT ![i] = val]
mm_cvtsi128_si32(a) == a[0]

\* The adder of the integer unit: the w-bit sum of a, b and a carry in.
\* A carry enters bit i when some lower bit generates one (both operands
\* have it) and every bit between propagates it (either operand has it),
\* or when the carry in is propagated all the way; the carry out of bit
\* w-1 is dropped.
CarryInto(a, b, i, cin) ==
    \/ \E j \in a \cap b : j < i /\ (j + 1 .. i - 1) \subseteq (a \cup b)
    \/ cin /\ (0 .. i - 1) \subseteq (a \cup b)

Adder(a, b, w, cin) ==
    {i \in 0 .. w - 1 : ((i \in a) # (i \in b)) # CarryInto(a, b, i, cin)}

\* The multiplier: the sum over the one bits j of b of (a << j), kept to
\* `out` bits; a has w bits and acc is the sum so far.
RECURSIVE Multiplier(_, _, _, _, _, _)
Multiplier(a, b, j, w, out, acc) ==
    IF j = w THEN acc
    ELSE Multiplier(a, b, j + 1, w, out,
                    IF j \in b THEN Adder(Up(a, j) \cap (0 .. out - 1), acc, out, FALSE)
                    ELSE acc)

mm_add_epi32(a, b) == [l \in Lanes |-> Adder(a[l], b[l], WordBits, FALSE)]
mm_sub_epi32(a, b) == [l \in Lanes |-> Adder(a[l], Bit \ b[l], WordBits, TRUE)]
mm_mullo_epi32(a, b) ==
    [l \in Lanes |-> Multiplier(a[l], b[l], 0, WordBits, WordBits, {})]

\* _mm_mul_epu32: the unsigned 64-bit products of lanes 0 and of lanes 2,
\* each filling two lanes of the result (low half first).
LowHalf(p) == p \cap Bit
HighHalf(p) == {i - WordBits : i \in p \ Bit}
mm_mul_epu32(a, b) ==
    LET p0 == Multiplier(a[0], b[0], 0, WordBits, 2 * WordBits, {})
        p2 == Multiplier(a[2], b[2], 0, WordBits, 2 * WordBits, {})
    IN V4(LowHalf(p0), HighHalf(p0), LowHalf(p2), HighHalf(p2))

\* _mm_hadd_epi32: the sums of adjacent lanes of a, then of b.
mm_hadd_epi32(a, b) ==
    V4(Adder(a[0], a[1], WordBits, FALSE), Adder(a[2], a[3], WordBits, FALSE),
       Adder(b[0], b[1], WordBits, FALSE), Adder(b[2], b[3], WordBits, FALSE))

\* The immediate shifts: a count above 31 shifts every bit out.
mm_slli_epi32(a, count) == [l \in Lanes |-> {i + count : i \in a[l]} \cap Bit]
mm_srli_epi32(a, count) == [l \in Lanes |-> {i - count : i \in a[l]} \cap Bit]
mm_srai_epi32(a, count) ==
    [l \in Lanes |->
        ({i - count : i \in a[l]} \cap Bit)
        \cup (IF SignBit \in a[l] THEN {i \in Bit : i + count >= WordBits} ELSE {})]

\* Bits lo .. lo+w-1 of the 128-bit register, as a w-bit word.
RegField(a, lo, w) ==
    {i \in 0 .. w - 1 : ((lo + i) % WordBits) \in a[(lo + i) \div WordBits]}

\* _mm_load_sd on an array of four 16-bit elements and _mm_load_ss on an
\* array of four 8-bit elements (little endian): the elements fill the low
\* 64, respectively 32, bits of the register and the rest is zero.
mm_load_sd(values) ==
    [l \in Lanes |->
        IF l < 2 THEN values[2 * l] \cup Up(values[2 * l + 1], ShortBits) ELSE {}]
mm_load_ss(values) ==
    [l \in Lanes |->
        IF l = 0 THEN UNION { Up(values[k], CharBits * k) : k \in Lanes } ELSE {}]

\* _mm_cvtepu16_epi32, _mm_cvtepi16_epi32, _mm_cvtepu8_epi32 and
\* _mm_cvtepi8_epi32: lane l is the l-th 16-bit (8-bit) element of the
\* low bits of the register, zero extended (u) or sign extended (i).
SignExtend(e, w) == e \cup (IF w - 1 \in e THEN w .. WordBits - 1 ELSE {})
mm_cvtepu16_epi32(a) == [l \in Lanes |-> RegField(a, ShortBits * l, ShortBits)]
mm_cvtepi16_epi32(a) ==
    [l \in Lanes |-> SignExtend(RegField(a, ShortBits * l, ShortBits), ShortBits)]
mm_cvtepu8_epi32(a) == [l \in Lanes |-> RegField(a, CharBits * l, CharBits)]
mm_cvtepi8_epi32(a) ==
    [l \in Lanes |-> SignExtend(RegField(a, CharBits * l, CharBits), CharBits)]

-----------------------------------------------------------------------------
(* mask4.  A mask4 value is its four 32-bit lanes (the union of m_vec and  *)
(* m_val).  Each operation takes the #if branch of the build's backend.    *)

OIIO_SIMD_SSE_defined == simd_sse > 0

\* The ints -1 and 0 of `a ? -1 : 0`.
IntNegOne == Int32(-1)
IntZero == Int32(0)
BoolBits(a) == IF a THEN IntNegOne ELSE IntZero

\* void mask4::load (bool a)
mask4_load(a) ==
    IF OIIO_SIMD_SSE_defined THEN mm_set1_epi32(BoolBits(a))
    ELSE [i \in Lanes |-> BoolBits(a)]

\* void mask4::load (bool a, bool b, bool c, bool d)
mask4_load4(a, b, c, d) ==
    IF OIIO_SIMD_SSE_defined
    THEN mm_set_epi32(BoolBits(d), BoolBits(c), BoolBits(b), BoolBits(a))
    ELSE V4(BoolBits(a), BoolBits(b), BoolBits(c), BoolBits(d))

mask4_False == IF OIIO_SIMD_SSE_defined THEN mm_setzero ELSE mask4_load(FALSE)

\* mask4::True(): anyval is zero, or undefined on AVX builds; a value
\* compares equal to itself byte by byte whatever it is.
mask4_True ==
    IF OIIO_SIMD_SSE_defined THEN mm_cmpeq_epi8(mm_setzero, mm_setzero)
    ELSE mask4_load(TRUE)

\* void mask4::clear ()
mask4_clear == IF OIIO_SIMD_SSE_defined THEN mm_setzero ELSE mask4_load(FALSE)

\* bool mask4::operator[] (int i) const
mask4_get(a, i) ==
    IF OIIO_SIMD_SSE_defined THEN (mm_movemask_ps(a) \div Pow2(i)) % 2 = 1
    ELSE a[i] # Zero32

\* int& mask4::operator[] (int i), assigned the int val
mask4_set(a, i, val) == [a EXCEPT ![i] = val]

\* mask4 operator! (const mask4 & a)
mask4_not(a) ==
    IF OIIO_SIMD_SSE_defined THEN mm_xor(a, mask4_True)
    ELSE [i \in Lanes |-> (a[i] \ IntNegOne) \cup (IntNegOne \ a[i])]

\* mask4 operator& (const mask4 & a, const mask4 & b), and mask4::operator&=
mask4_and(a, b) ==
    IF OIIO_SIMD_SSE_defined THEN mm_and(a, b)
    ELSE [i \in Lanes |-> a[i] \cap b[i]]

\* mask4 operator| (const mask4 & a, const mask4 & b), and mask4::operator|=
mask4_or(a, b) ==
    IF OIIO_SIMD_SSE_defined THEN mm_or(a, b)
    ELSE [i \in Lanes |-> a[i] \cup b[i]]

\* mask4 operator^ (const mask4& a, const mask4& b), and mask4::operator^=
mask4_xor(a, b) ==
    IF OIIO_SIMD_SSE_defined THEN mm_xor(a, b)
    ELSE [i \in Lanes |-> (a[i] \ b[i]) \cup (b[i] \ a[i])]

\* mask4 mask4::operator~ ()
mask4_compl(a) ==
    IF OIIO_SIMD_SSE_defined THEN mm_xor(a, mm_cmpeq_epi8(a, a))
    ELSE [i \in Lanes |-> Bit \ a[i]]

\* const mask4 operator== (const mask4 & a, const mask4 & b)
mask4_eq(a, b) ==
    IF OIIO_SIMD_SSE_defined THEN mm_cmpeq_epi32(a, b)
    ELSE [i \in Lanes |-> IF a[i] = b[i] THEN IntNegOne ELSE IntZero]

\* const mask4 operator!= (const mask4 & a, const mask4 & b)
mask4_ne(a, b) ==
    IF OIIO_SIMD_SSE_defined THEN mm_xor(a, b)
    ELSE [i \in Lanes |-> IF a[i] # b[i] THEN IntNegOne ELSE IntZero]

\* shuffle_sse as it would be if the SSE3 specializations <0,0,2,2> and
\* <1,1,3,3> used each other's instruction.
shuffle_sse_dup_swapped(i0, i1, i2, i3, v) ==
    IF simd_sse >= 3 /\ <<i0, i1, i2, i3>> = <<0, 0, 2, 2>> THEN mm_movehdup_ps(v)
    ELSE IF simd_sse >= 3 /\ <<i0, i1, i2, i3>> = <<1, 1, 3, 3>> THEN mm_moveldup_ps(v)
    ELSE IF simd_sse >= 3 /\ <<i0, i1, i2, i3>> = <<0, 1, 0, 1>> THEN mm_movedup_pd(v)
    ELSE mm_shuffle_epi32(v, MM_SHUFFLE(i3, i2, i1, i0))

\* shuffle_sse<i0,i1,i2,i3>, with the SSE3 specializations
shuffle_sse(i0, i1, i2, i3, v) ==
    IF simd_sse >= 3 /\ <<i0, i1, i2, i3>> = <<0, 0, 2, 2>> THEN mm_moveldup_ps(v)
    ELSE IF simd_sse >= 3 /\ <<i0, i1, i2, i3>> = <<1, 1, 3, 3>> THEN mm_movehdup_ps(v)
    ELSE IF simd_sse >= 3 /\ <<i0, i1, i2, i3>> = <<0, 1, 0, 1>> THEN mm_movedup_pd(v)
    ELSE mm_shuffle_epi32(v, MM_SHUFFLE(i3, i2, i1, i0))

\* mask4 shuffle<i0,i1,i2,i3> (const mask4& a)
mask4_shuffle(i0, i1, i2, i3, a) ==
    IF OIIO_SIMD_SSE_defined THEN shuffle_sse(i0, i1, i2, i3, a)
    ELSE mask4_load4(mask4_get(a, i0), mask4_get(a, i1),
                     mask4_get(a, i2), mask4_get(a, i3))

\* mask4 shuffle<i> (const mask4& a)
mask4_shuffle1(i, a) == mask4_shuffle(i, i, i, i, a)

\* mask4 insert<i> (const mask4& a, bool val)
mask4_insert(i, a, val) ==
    IF simd_sse >= 4 THEN mm_insert_epi32(a, BoolBits(val), i)
    ELSE mask4_set(a, i, BoolBits(val))

\* reduce_and as it would be if it tested for any set lane instead of all.
reduce_and_any_lane(v) ==
    IF OIIO_SIMD_SSE_defined THEN mm_movemask_ps(v) # 0
    ELSE mask4_get(v, 0) \/ mask4_get(v, 1) \/ mask4_get(v, 2) \/ mask4_get(v, 3)

\* bool reduce_and (const mask4& v)
mask4_reduce_and(v) ==
    IF OIIO_SIMD_SSE_defined THEN mm_movemask_ps(v) = 15
    ELSE mask4_get(v, 0) /\ mask4_get(v, 1) /\ mask4_get(v, 2) /\ mask4_get(v, 3)

\* bool reduce_or (const mask4& v)
mask4_reduce_or(v) ==
    IF OIIO_SIMD_SSE_defined THEN mm_movemask_ps(v) # 0
    ELSE mask4_get(v, 0) \/ mask4_get(v, 1) \/ mask4_get(v, 2) \/ mask4_get(v, 3)

all(v) == mask4_reduce_and(v) = TRUE
any(v) == mask4_reduce_or(v) = TRUE
none(v) == mask4_reduce_or(v) = FALSE

-----------------------------------------------------------------------------
(* int4 comparisons, which produce mask4 values *)

int4_Zero == IF OIIO_SIMD_SSE_defined THEN mm_setzero ELSE Splat(IntZero)

\* mask4 operator== (const int4& a, const int4& b)
int4_eq(a, b) ==
    IF OIIO_SIMD_SSE_defined THEN mm_cmpeq_epi32(a, b)
    ELSE [i \in Lanes |-> IF a[i] = b[i] THEN IntNegOne ELSE IntZero]

\* mask4 operator!= (const int4& a, const int4& b)
int4_ne(a, b) == mask4_not(int4_eq(a, b))

\* mask4 operator< (const int4& a, const int4& b)
int4_lt(a, b) ==
    IF OIIO_SIMD_SSE_defined THEN mm_cmplt_epi32(a, b)
    ELSE [i \in Lanes |-> IF SignedLess(a[i], b[i]) THEN IntNegOne ELSE IntZero]

\* mask4 operator> (const int4& a, const int4& b)
int4_gt(a, b) ==
    IF OIIO_SIMD_SSE_defined THEN mm_cmpgt_epi32(a, b)
    ELSE [i \in Lanes |-> IF SignedLess(b[i], a[i]) THEN IntNegOne ELSE IntZero]

\* mask4 operator>= and operator<= (const int4& a, const int4& b)
int4_ge(a, b) == mask4_not(int4_lt(a, b))
int4_le(a, b) == mask4_not(int4_gt(a, b))

\* mask4::mask4 (const int4& ival)
mask4_from_int4(ival) ==
    IF OIIO_SIMD_SSE_defined THEN int4_ne(ival, int4_Zero)
    ELSE [i \in Lanes |-> IF ival[i] # IntZero THEN IntNegOne ELSE IntZero]

-----------------------------------------------------------------------------
(* int4 arithmetic, shifts, reductions and narrow loads *)

\* int4 operator+ (const int4& a, const int4& b)
int4_add(a, b) ==
    IF OIIO_SIMD_SSE_defined THEN mm_add_epi32(a, b)
    ELSE [i \in Lanes |-> c_add(a[i], b[i])]

\* int4 operator- (const int4& a, const int4& b)
int4_sub(a, b) ==
    IF OIIO_SIMD_SSE_defined THEN mm_sub_epi32(a, b)
    ELSE [i \in Lanes |-> c_sub(a[i], b[i])]

\* mm_mul_epi32 as it would be if the emulation interleaved the two 64-bit
\* products without first bringing their low halves together.
mm_mul_epi32_no_gather(a, b) ==
    IF simd_sse >= 4 THEN mm_mullo_epi32(a, b)
    ELSE LET t0 == mm_mul_epu32(a, b)
             t1 == mm_mul_epu32(mm_shuffle_epi32(a, 177), mm_shuffle_epi32(b, 177))
         IN mm_unpacklo_epi32(t0, t1)

\* __m128i mm_mul_epi32 (__m128i a, __m128i b): _mm_mullo_epi32 from
\* SSE4.1 on; before, two _mm_mul_epu32 (0xB1 is 177, 0xD8 is 216).
mm_mul_epi32(a, b) ==
    IF simd_sse >= 4 THEN mm_mullo_epi32(a, b)
    ELSE LET t0 == mm_mul_epu32(a, b)
             t1 == mm_mul_epu32(mm_shuffle_epi32(a, 177), mm_shuffle_epi32(b, 177))
         IN mm_unpacklo_epi32(mm_shuffle_epi32(t0, 216), mm_shuffle_epi32(t1, 216))

\* int4 operator* (const int4& a, const int4& b)
int4_mul(a, b) ==
    IF OIIO_SIMD_SSE_defined THEN mm_mul_epi32(a, b)
    ELSE [i \in Lanes |-> c_mul(a[i], b[i])]

\* int4 operator| (const int4& a, const int4& b)
int4_or(a, b) ==
    IF OIIO_SIMD_SSE_defined THEN mm_or(a, b)
    ELSE [i \in Lanes |-> a[i] \cup b[i]]

\* int4 int4::operator<< (const unsigned int bits) const
int4_shl(a, bits, count_masked) ==
    IF OIIO_SIMD_SSE_defined THEN mm_slli_epi32(a, bits)
    ELSE [i \in Lanes |-> c_shl_ub(a[i], bits, count_masked)]

\* operator>> as it would be if it shifted zeros in (a logical shift).
int4_shr_zero_fill(a, bits, count_masked) ==
    IF OIIO_SIMD_SSE_defined THEN mm_srli_epi32(a, bits)
    ELSE [i \in Lanes |-> c_shr_ub(a[i], bits, count_masked)]

\* int4 int4::operator>> (const unsigned int bits)
int4_shr(a, bits, count_masked) ==
    IF OIIO_SIMD_SSE_defined THEN mm_srai_epi32(a, bits)
    ELSE [i \in Lanes |-> c_sar_ub(a[i], bits, count_masked)]

\* srl as it would be if it kept the sign (an arithmetic shift).
srl_sign_fill(val, bits, count_masked) ==
    IF OIIO_SIMD_SSE_defined THEN mm_srai_epi32(val, bits)
    ELSE [i \in Lanes |-> c_sar_ub(val[i], bits, count_masked)]

\* int4 srl (const int4& val, const unsigned int bits)
srl(val, bits, count_masked) ==
    IF OIIO_SIMD_SSE_defined THEN mm_srli_epi32(val, bits)
    ELSE [i \in Lanes |-> c_shr_ub(val[i], bits, count_masked)]

\* rotl32 as it would be if its right shift were operator>>.
rotl32_signed_shift(a, k, count_masked) ==
    int4_or(int4_shl(a, k, count_masked), int4_shr(a, WordBits - k, count_masked))

\* int4 rotl32 (const int4& x, const unsigned int k)
rotl32(a, k, count_masked) ==
    int4_or(int4_shl(a, k, count_masked), srl(a, WordBits - k, count_masked))

\* int4 shuffle<i0,i1,i2,i3> (const int4& a)
int4_shuffle(i0, i1, i2, i3, a) ==
    IF OIIO_SIMD_SSE_defined THEN shuffle_sse(i0, i1, i2, i3, a)
    ELSE V4(a[i0], a[i1], a[i2], a[i3])

\* vreduce_add as it would be if every path stopped after the first round
\* of pairwise sums.
vreduce_add_one_round(v) ==
    IF simd_sse >= 3 THEN mm_hadd_epi32(v, v)
    ELSE IF OIIO_SIMD_SSE_defined THEN int4_add(int4_shuffle(1, 0, 3, 2, v), v)
    ELSE Splat(c_add(v[0], v[1]))

\* int4 vreduce_add (const int4& v)
vreduce_add(v) ==
    IF simd_sse >= 3
    THEN LET ab_cd == mm_hadd_epi32(v, v) IN mm_hadd_epi32(ab_cd, ab_cd)
    ELSE IF OIIO_SIMD_SSE_defined
    THEN LET ab_ab_cd_cd == int4_add(int4_shuffle(1, 0, 3, 2, v), v)
             cd_cd_ab_ab == int4_shuffle(2, 3, 0, 1, ab_ab_cd_cd)
         IN int4_add(ab_ab_cd_cd, cd_cd_ab_ab)
    ELSE Splat(c_add(c_add(c_add(v[0], v[1]), v[2]), v[3]))

\* int reduce_add (const int4& v)
reduce_add(v) ==
    IF OIIO_SIMD_SSE_defined THEN mm_cvtsi128_si32(vreduce_add(v))
    ELSE c_add(c_add(c_add(v[0], v[1]), v[2]), v[3])

\* The conversion to int of an unsigned (zero extension) and of a signed
\* (sign extension) w-bit element, as C converts values[i].
c_int_of_unsigned(e, w) == Int32(Field(e, 0, w))
c_int_of_signed(e, w) ==
    Int32(IF w - 1 \in e THEN Field(e, 0, w - 1) - Pow2(w - 1) ELSE Field(e, 0, w - 1))
\* Plain char is signed or unsigned as the build's target defines it.
c_int_of_char(e) ==
    IF char_signed THEN c_int_of_signed(e, CharBits) ELSE c_int_of_unsigned(e, CharBits)

\* void int4::load (const unsigned short *values)
int4_load_ushort(values) ==
    IF simd_sse >= 4 THEN mm_cvtepu16_epi32(mm_load_sd(values))
    ELSE [i \in Lanes |-> c_int_of_unsigned(values[i], ShortBits)]

\* void int4::load (const short *values)
int4_load_short(values) ==
    IF simd_sse >= 4 THEN mm_cvtepi16_epi32(mm_load_sd(values))
    ELSE [i \in Lanes |-> c_int_of_signed(values[i], ShortBits)]

\* void int4::load (const unsigned char *values)
int4_load_uchar(values) ==
    IF simd_sse >= 4 THEN mm_cvtepu8_epi32(mm_load_ss(values))
    ELSE [i \in Lanes |-> c_int_of_unsigned(values[i], CharBits)]

\* void int4::load (const char *values)
int4_load_char(values) ==
    IF simd_sse >= 4 THEN mm_cvtepi8_epi32(mm_load_ss(values))
    ELSE [i \in Lanes |-> c_int_of_char(values[i])]

-----------------------------------------------------------------------------
(* int4 stores to narrow integers.  A store returns the memory after it,   *)
(* given the memory before it (a function from offsets to elements).       *)

\* int4 operator& (const int4& a, const int4& b)
int4_and(a, b) ==
    IF OIIO_SIMD_SSE_defined THEN mm_and(a, b)
    ELSE [i \in Lanes |-> a[i] \cap b[i]]

\* void int4::load (int a), as int4 (int a) calls it
int4_load1(a) == IF OIIO_SIMD_SSE_defined THEN mm_set1_epi32(a) ELSE Splat(a)

\* The 16-bit element h (0 .. 7) of a register, and the register made of
\* eight of them.
HalfWord(a, h) == RegField(a, ShortBits * h, ShortBits)
FromHalfWords(f) == [l \in Lanes |-> f[2 * l] \cup Up(f[2 * l + 1], ShortBits)]

\* _mm_shufflelo_epi16 and _mm_shufflehi_epi16: the four low (high)
\* halfwords are picked by the immediate's two-bit fields from the four
\* low (high) halfwords of a; the other four are copied.
mm_shufflelo_epi16(a, imm) ==
    FromHalfWords([h \in 0 .. 7 |->
        IF h < 4 THEN HalfWord(a, (imm \div Pow2(2 * h)) % 4) ELSE HalfWord(a, h)])
mm_shufflehi_epi16(a, imm) ==
    FromHalfWords([h \in 0 .. 7 |->
        IF h < 4 THEN HalfWord(a, h) ELSE HalfWord(a, 4 + ((imm \div Pow2(2 * (h - 4))) % 4))])

\* _mm_storel_pd on an array of 16-bit elements: the low 64 bits of the
\* register go to values[0 .. 3].
mm_storel_pd(values, a) ==
    [i \in DOMAIN values |-> IF i < 4 THEN HalfWord(a, i) ELSE values[i]]

\* *(int*)values = r on an array of bytes (little endian): the four bytes
\* of r go to values[0 .. 3].
store_int_to_bytes(values, r) ==
    [i \in DOMAIN values |-> IF i < 4 THEN {b - CharBits * i : b \in r \cap ByteBits(i)}
                             ELSE values[i]]

\* values[i] = m_val[i] for i < elements, converting the int to an
\* unsigned w-bit element (its low w bits).
store_each_narrowed(values, a, w) ==
    [i \in DOMAIN values |-> IF i < elements THEN a[i] \cap (0 .. w - 1) ELSE values[i]]

\* int4::store (unsigned char*) as it would be if the lanes were not masked
\* to their low byte before being packed.
int4_store_uchar_unmasked(a, values) ==
    IF OIIO_SIMD_SSE_defined
    THEN LET clamped == a
             swapped == shuffle_sse(1, 0, 3, 2, clamped)
             shifted == int4_shl(swapped, 8, FALSE)
             merged == int4_or(clamped, shifted)
             merged2 == shuffle_sse(2, 2, 2, 2, merged)
             shifted2 == int4_shl(merged2, 16, FALSE)
             result == int4_or(merged, shifted2)
         IN store_int_to_bytes(values, result[0])
    ELSE store_each_narrowed(values, a, CharBits)

\* void int4::store (unsigned short *values) const.
\* (0<<0)|(2<<2)|(1<<4)|(1<<6) is 88 and (1<<0)|(1<<2)|(0<<4)|(2<<6) is 133.
int4_store_ushort(a, values) ==
    IF OIIO_SIMD_SSE_defined
    THEN LET clamped == int4_and(a, int4_load1(Int32(65535)))
             low == mm_shufflelo_epi16(clamped, 88)
             high == mm_shufflehi_epi16(clamped, 133)
             highswapped == shuffle_sse(2, 3, 0, 1, high)
             result == int4_or(low, highswapped)
         IN mm_storel_pd(values, result)
    ELSE store_each_narrowed(values, a, ShortBits)

\* void int4::store (unsigned char *values) const
int4_store_uchar(a, values) ==
    IF OIIO_SIMD_SSE_defined
    THEN LET clamped == int4_and(a, int4_load1(Int32(255)))
             swapped == shuffle_sse(1, 0, 3, 2, clamped)
             shifted == int4_shl(swapped, 8, FALSE)
             merged == int4_or(clamped, shifted)
             merged2 == shuffle_sse(2, 2, 2, 2, merged)
             shifted2 == int4_shl(merged2, 16, FALSE)
             result == int4_or(merged, shifted2)
         IN store_int_to_bytes(values, result[0])
    ELSE store_each_narrowed(values, a, CharBits)

-----------------------------------------------------------------------------
(* float4 data movement.  Where an operation only moves floats, a float4   *)
(* is its four 32-bit lanes, each float its IEEE-754 bit pattern.          *)

\* int4 shuffle<i> (const int4& a)
int4_shuffle1(i, a) == int4_shuffle(i, i, i, i, a)

\* float4 shuffle<i0,i1,i2,i3> (const float4& a)
float4_shuffle(i0, i1, i2, i3, a) ==
    IF OIIO_SIMD_SSE_defined THEN shuffle_sse(i0, i1, i2, i3, a)
    ELSE V4(a[i0], a[i1], a[i2], a[i3])

\* float4 shuffle<i> (const float4& a)
float4_shuffle1(i, a) == float4_shuffle(i, i, i, i, a)

\* _mm_extract_epi32, _mm_cvtss_f32 (the lowest lane), _mm_set_ss (val in
\* the lowest lane, zeros above) and _mm_move_ss (the lowest lane of b
\* over a).
mm_extract_epi32(a, i) == a[i]
mm_cvtss_f32(a) == a[0]
mm_set_ss(v) == V4(v, Zero32, Zero32, Zero32)
mm_move_ss(a, b) == V4(b[0], a[1], a[2], a[3])

\* _mm_insert_ps (a, b, imm): bits 7:6 of imm pick the lane of b, bits 5:4
\* the lane of a it replaces, and each set bit l of bits 3:0 zeroes lane l.
mm_insert_ps(a, b, imm) ==
    LET src == b[(imm \div 64) % 4]
        to == (imm \div 16) % 4
    IN [l \in Lanes |->
            IF (imm \div Pow2(l)) % 2 = 1 THEN Zero32
            ELSE IF l = to THEN src ELSE a[l]]

\* int extract<i> (const int4& v)
int4_extract(i, v) ==
    IF simd_sse >= 4 THEN mm_extract_epi32(v, i) ELSE v[i]

\* int4 insert<i> (const int4& a, int val)
int4_insert(i, a, v) ==
    IF simd_sse >= 4 THEN mm_insert_epi32(a, v, i)
    ELSE [a EXCEPT ![i] = v]

\* float extract<i> (const float4& a), with the SSE specialization extract<0>
float4_extract(i, a) ==
    IF OIIO_SIMD_SSE_defined /\ i = 0 THEN mm_cvtss_f32(a)
    ELSE IF OIIO_SIMD_SSE_defined THEN mm_cvtss_f32(shuffle_sse(i, i, i, i, a))
    ELSE a[i]

\* insert<i> (const float4&, float) as it would be if the lane index were
\* passed to _mm_insert_ps without being moved to bits 5:4.
float4_insert_unshifted(i, a, v) ==
    IF OIIO_SIMD_SSE_defined /\ i = 0 THEN mm_move_ss(a, mm_set_ss(v))
    ELSE IF simd_sse >= 4 THEN mm_insert_ps(a, mm_set_ss(v), i)
    ELSE [a EXCEPT ![i] = v]

\* float4 insert<i> (const float4& a, float val), with the SSE
\* specialization insert<0>
float4_insert(i, a, v) ==
    IF OIIO_SIMD_SSE_defined /\ i = 0 THEN mm_move_ss(a, mm_set_ss(v))
    ELSE IF simd_sse >= 4 THEN mm_insert_ps(a, mm_set_ss(v), i * 16)
    ELSE [a EXCEPT ![i] = v]

\* _mm_andnot_si128 / _mm_andnot_ps (a, b) is (~a) & b
mm_andnot(a, b) == [l \in Lanes |-> b[l] \ a[l]]

\* _mm_blendv_epi8 (a, b, mask): each byte is b's where the top bit of the
\* mask's byte is set, else a's.
mm_blendv_epi8(a, b, mask) ==
    [l \in Lanes |->
        UNION { (IF CharBits * k + CharBits - 1 \in mask[l] THEN b[l] ELSE a[l]) \cap ByteBits(k) :
                k \in 0 .. 3 }]

\* _mm_blendv_ps (a, b, mask): each lane is b's where the sign bit of the
\* mask's lane is set, else a's.
mm_blendv_ps(a, b, mask) ==
    [l \in Lanes |-> IF SignBit \in mask[l] THEN b[l] ELSE a[l]]

\* int4 blend (const int4& a, const int4& b, const mask4& mask)
int4_blend(a, b, mask) ==
    IF simd_sse >= 4 THEN mm_blendv_epi8(a, b, mask)
    ELSE IF OIIO_SIMD_SSE_defined THEN mm_or(mm_and(mask, b), mm_andnot(mask, a))
    ELSE [i \in Lanes |-> IF mask4_get(mask, i) THEN b[i] ELSE a[i]]

\* select on int4 as it would be if it passed a and b to blend in its own
\* order.
int4_select_unswapped(mask, a, b) == int4_blend(a, b, mask)

\* int4 select (const mask4& mask, const int4& a, const int4& b)
int4_select(mask, a, b) == int4_blend(b, a, mask)

\* float4 blend (const float4& a, const float4& b, const mask4& mask)
float4_blend(a, b, mask) ==
    IF simd_sse >= 4 THEN mm_blendv_ps(a, b, mask)
    ELSE IF OIIO_SIMD_SSE_defined THEN mm_or(mm_and(mask, b), mm_andnot(mask, a))
    ELSE V4(IF mask4_get(mask, 0) THEN b[0] ELSE a[0],
            IF mask4_get(mask, 1) THEN b[1] ELSE a[1],
            IF mask4_get(mask, 2) THEN b[2] ELSE a[2],
            IF mask4_get(mask, 3) THEN b[3] ELSE a[3])

\* float4 select (const mask4& mask, const float4& a, const float4& b)
float4_select(mask, a, b) == float4_blend(b, a, mask)

-----------------------------------------------------------------------------
(* float arithmetic.  A float is its IEEE-754 single-precision bit pattern *)
(* in a lane; its value is a NaN, an infinity, a zero, or a number         *)
(* (-1)^s * n * 2^k with n odd.  Arithmetic decodes the operands, computes  *)
(* on the values and encodes the correctly rounded result.                 *)

MantissaBits == 23
ExponentBias == 127

FNaN == [kind |-> "nan", s |-> 0, n |-> 0, k |-> 0]
FInf(s) == [kind |-> "inf", s |-> s, n |-> 0, k |-> 0]
FZero(s) == [kind |-> "zero", s |-> s, n |-> 0, k |-> 0]

\* The number (-1)^s * mag * 2^k for mag > 0, with the factors of two of mag
\* moved into the exponent.
RECURSIVE FNum(_, _, _)
FNum(s, mag, k) ==
    IF mag # 0 /\ mag % 2 = 0 THEN FNum(s, mag \div 2, k + 1)
    ELSE [kind |-> "num", s |-> s, n |-> mag, k |-> k]

\* The position of the highest one bit of mag > 0 (0 for mag = 0).
RECURSIVE TopBit(_)
TopBit(mag) == IF mag <= 1 THEN 0 ELSE 1 + TopBit(mag \div 2)

\* 2^k * mag for an integer result, k of either sign.
Scale(mag, k) == IF k >= 0 THEN mag * Pow2(k) ELSE mag \div Pow2(-k)

\* The value of the float with sign s, exponent field e and mantissa field
\* mant.
DecodeFields(s, e, mant) ==
    IF e = 255 THEN (IF mant = 0 THEN FInf(s) ELSE FNaN)
    ELSE IF e = 0 THEN (IF mant = 0 THEN FZero(s)
                        ELSE FNum(s, mant, 1 - ExponentBias - MantissaBits))
    ELSE FNum(s, Pow2(MantissaBits) + mant, e - ExponentBias - MantissaBits)

\* The value of a bit pattern.
DecodeFloat(w) ==
    DecodeFields(IF SignBit \in w THEN 1 ELSE 0,
                 Field(w, MantissaBits, CharBits), Field(w, 0, MantissaBits))

\* The bit patterns of the zero and the infinity of sign s, and of the NaN
\* an invalid operation returns.
SignBits(s) == IF s = 1 THEN {SignBit} ELSE {}
InfBits(s) == SignBits(s) \cup Up(NatBits(255, CharBits), MantissaBits)
FloatZero == SignBits(0)
FloatNegZero == SignBits(1)
FloatInf == InfBits(0)
FloatNaN == Up(NatBits(511, CharBits + 1), MantissaBits - 1)

\* The bit pattern of the number mag * 2^k, mag of at most 24 bits with its
\* highest bit at p, whose exponent field would be e: an infinity on
\* overflow, a denormal for e <= 0.
EncodeNum(s, mag, k, p, e) ==
    IF e >= 255 THEN InfBits(s)
    ELSE IF e <= 0
    THEN SignBits(s) \cup NatBits(Scale(mag, k + ExponentBias + MantissaBits - 1), MantissaBits)
    ELSE SignBits(s) \cup Up(NatBits(e, CharBits), MantissaBits)
                     \cup NatBits(Scale(mag, MantissaBits - p) - Pow2(MantissaBits), MantissaBits)

\* The bit pattern of a value.
EncodeFloat(f) ==
    CASE f.kind = "nan" -> FloatNaN
      [] f.kind = "inf" -> InfBits(f.s)
      [] f.kind = "zero" -> SignBits(f.s)
      [] OTHER -> EncodeNum(f.s, f.n, f.k, TopBit(f.n), TopBit(f.n) + f.k + ExponentBias)

\* A NaN operand comes back from an operation quiet.
Quiet(w) == w \cup {MantissaBits - 1}

\* A NaN operand comes back from an operation as a NaN.
IsNaN(w) == DecodeFloat(w).kind = "nan"
IsFloatZero(w) == DecodeFloat(w).kind = "zero"

\* The magnitude of a bit pattern: the pattern without its sign bit.
Magnitude(w) == Field(w, 0, WordBits - 1)

\* a == b on floats: a NaN equals nothing, the two zeros are equal.
f_eq(a, b) ==
    /\ ~IsNaN(a)
    /\ ~IsNaN(b)
    /\ \/ a = b
       \/ IsFloatZero(a) /\ IsFloatZero(b)

\* a < b on floats: FALSE when an operand is a NaN.
f_lt(a, b) ==
    /\ ~IsNaN(a)
    /\ ~IsNaN(b)
    /\ ~(IsFloatZero(a) /\ IsFloatZero(b))
    /\ IF (SignBit \in a) # (SignBit \in b) THEN SignBit \in a
       ELSE IF SignBit \in a THEN Magnitude(a) > Magnitude(b)
       ELSE Magnitude(a) < Magnitude(b)

\* count steps of the long division of rem * 2^count by d: the quotient so
\* far q gains one bit per step.
RECURSIVE DivStep(_, _, _, _)
DivStep(rem, q, d, count) ==
    IF count = 0 THEN <<q, rem>>
    ELSE DivStep((2 * rem) % d, 2 * q + (2 * rem) \div d, d, count - 1)

\* q * 2^k (plus a remainder below the last bit of q when sticky), rounded
\* to the 24 bits of a float's significand, to nearest and to even on a
\* tie: the low drop bits of q are the rest, the others are kept.
RoundKept(s, keep, rest, half, k, tie_up) ==
    FNum(s, IF rest > half \/ (rest = half /\ tie_up /\ half > 0) THEN keep + 1 ELSE keep, k)
RoundDropping(s, q, k, sticky, drop) ==
    RoundKept(s, q \div Pow2(drop), q % Pow2(drop), IF drop = 0 THEN 0 ELSE Pow2(drop - 1),
              k + drop, sticky \/ (q \div Pow2(drop)) % 2 = 1)
RoundToFloat(s, q, k, sticky) ==
    RoundDropping(s, q, k, sticky,
                  IF TopBit(q) > MantissaBits THEN TopBit(q) - MantissaBits ELSE 0)

\* na * 2^k / nb, correctly rounded: exact when nb divides na, else from t
\* more bits of the quotient and whether a remainder is left.
RoundQuotient(s, qr, k) == RoundToFloat(s, qr[1], k, qr[2] # 0)
DivRounded(s, na, nb, k, t) == RoundQuotient(s, DivStep(na % nb, na \div nb, nb, t), k - t)
DivNumbers(s, na, nb, k) ==
    IF na % nb = 0 THEN FNum(s, na \div nb, k)
    ELSE DivRounded(s, na, nb, k, MantissaBits + 2 - (TopBit(na) - TopBit(nb)))

\* a / b for the values fa of a and fb of b.
DivValues(a, b, fa, fb) ==
    CASE fa.kind = "nan" -> Quiet(a)
      [] fb.kind = "nan" -> Quiet(b)
      [] fa.kind = "inf" ->
            IF fb.kind = "inf" THEN FloatNaN ELSE InfBits((fa.s + fb.s) % 2)
      [] fb.kind = "inf" -> SignBits((fa.s + fb.s) % 2)
      [] fb.kind = "zero" ->
            IF fa.kind = "zero" THEN FloatNaN ELSE InfBits((fa.s + fb.s) % 2)
      [] fa.kind = "zero" -> SignBits((fa.s + fb.s) % 2)
      [] OTHER -> EncodeFloat(DivNumbers((fa.s + fb.s) % 2, fa.n, fb.n, fa.k - fb.k))

\* a / b on floats, correctly rounded (the quotients taken here are in the
\* range of the normal numbers).
f_div(a, b) == DivValues(a, b, DecodeFloat(a), DecodeFloat(b))

\* The float literal (-1)^s * mag * 2^k.
Float(s, mag, k) == EncodeFloat(FNum(s, mag, k))

mm_div_ps(a, b) == [i \in Lanes |-> f_div(a[i], b[i])]
mm_cmpeq_ps(a, b) == [i \in Lanes |-> IF f_eq(a[i], b[i]) THEN Ones32 ELSE Zero32]
mm_cmplt_ps(a, b) == [i \in Lanes |-> IF f_lt(a[i], b[i]) THEN Ones32 ELSE Zero32]

\* const float4 float4::Zero ()
float4_Zero == IF OIIO_SIMD_SSE_defined THEN mm_setzero ELSE Splat(FloatZero)

\* float4 operator/ (const float4& a, const float4& b)
float4_div(a, b) ==
    IF OIIO_SIMD_SSE_defined THEN mm_div_ps(a, b)
    ELSE [i \in Lanes |-> f_div(a[i], b[i])]

\* mask4 operator== (const float4& a, const float4& b)
float4_eq(a, b) ==
    IF OIIO_SIMD_SSE_defined THEN mm_cmpeq_ps(a, b)
    ELSE [i \in Lanes |-> IF f_eq(a[i], b[i]) THEN IntNegOne ELSE IntZero]

\* mask4 operator< (const float4& a, const float4& b)
float4_lt(a, b) ==
    IF OIIO_SIMD_SSE_defined THEN mm_cmplt_ps(a, b)
    ELSE [i \in Lanes |-> IF f_lt(a[i], b[i]) THEN IntNegOne ELSE IntZero]

\* float4 blend0not (const float4& a, const mask4& mask)
float4_blend0not(a, mask) ==
    IF OIIO_SIMD_SSE_defined THEN mm_andnot(mask, a)
    ELSE V4(IF mask4_get(mask, 0) THEN FloatZero ELSE a[0],
            IF mask4_get(mask, 1) THEN FloatZero ELSE a[1],
            IF mask4_get(mask, 2) THEN FloatZero ELSE a[2],
            IF mask4_get(mask, 3) THEN FloatZero ELSE a[3])

\* The division without its guard.
safe_div_unguarded(a, b) == float4_div(a, b)

\* float4 safe_div (const float4 &a, const float4 &b)
safe_div(a, b) ==
    IF OIIO_SIMD_SSE_defined THEN float4_blend0not(float4_div(a, b), float4_eq(b, float4_Zero))
    ELSE V4(IF f_eq(b[0], FloatZero) THEN FloatZero ELSE f_div(a[0], b[0]),
            IF f_eq(b[1], FloatZero) THEN FloatZero ELSE f_div(a[1], b[1]),
            IF f_eq(b[2], FloatZero) THEN FloatZero ELSE f_div(a[2], b[2]),
            IF f_eq(b[3], FloatZero) THEN FloatZero ELSE f_div(a[3], b[3]))

\* The integer part and the fraction (in units of 2^k) of the magnitude
\* mag * 2^k of a number, and one half in the units of the fraction.  A
\* magnitude below 2^-25 is all fraction, and a fraction below one half.
Tiny(f) == f.k < -(MantissaBits + 2)
IntegerPart(f) ==
    IF f.k >= 0 THEN f.n * Pow2(f.k)
    ELSE IF Tiny(f) THEN 0
    ELSE f.n \div Pow2(-f.k)
Fraction(f) ==
    IF f.k >= 0 THEN 0
    ELSE IF Tiny(f) THEN 1
    ELSE f.n % Pow2(-f.k)
HalfUnit(f) ==
    IF f.k >= 0 THEN 1
    ELSE IF Tiny(f) THEN 2
    ELSE Pow2(-f.k - 1)

\* The float of sign s and integer magnitude mag.
FloatOfInteger(s, mag) == EncodeFloat(IF mag = 0 THEN FZero(s) ELSE FNum(s, mag, 0))

\* A float rounded to an integral float: a NaN, an infinity, a zero and an
\* integral number come back as they are; otherwise the magnitude goes to
\* its integer part, plus one when up holds.
RoundIntegral(w, up) ==
    LET f == DecodeFloat(w)
    IN IF f.kind # "num" \/ f.k >= 0 THEN w
       ELSE FloatOfInteger(f.s, IntegerPart(f) + (IF up THEN 1 ELSE 0))

\* floorf and _mm_floor_ps: toward minus infinity.
f_floor(w) == RoundIntegral(w, SignBit \in w)

\* roundf: to nearest, away from zero on a tie.
f_roundf(w) ==
    RoundIntegral(w, Fraction(DecodeFloat(w)) >= HalfUnit(DecodeFloat(w)))

\* _mm_round_ps with _MM_FROUND_TO_NEAREST_INT: to nearest, to the even
\* integer on a tie.
f_round_nearest_even(w) ==
    LET f == DecodeFloat(w)
    IN RoundIntegral(w, \/ Fraction(f) > HalfUnit(f)
                        \/ Fraction(f) = HalfUnit(f) /\ IntegerPart(f) % 2 = 1)

\* The conversion of a float to int, which truncates; the floats taken
\* here have a magnitude below 2^31.
c_int_of_float(w) ==
    LET f == DecodeFloat(w)
    IN IF f.kind # "num" THEN IntZero
       ELSE IF f.s = 1 THEN Int32(-IntegerPart(f))
       ELSE Int32(IntegerPart(f))

mm_cvttps_epi32(a) == [i \in Lanes |-> c_int_of_float(a[i])]
mm_floor_ps(a) == [i \in Lanes |-> f_floor(a[i])]
mm_round_ps_nearest(a) == [i \in Lanes |-> f_round_nearest_even(a[i])]

\* int4::int4 (const float4& f)
int4_from_float4(f) ==
    IF OIIO_SIMD_SSE_defined THEN mm_cvttps_epi32(f)
    ELSE [i \in Lanes |-> c_int_of_float(f[i])]

\* int4 bitcast_to_int4 (const mask4& x)
bitcast_to_int4(v) == v

\* float4 floor (const float4& a)
float4_floor(a) ==
    IF simd_sse >= 4 THEN mm_floor_ps(a)
    ELSE V4(f_floor(a[0]), f_floor(a[1]), f_floor(a[2]), f_floor(a[3]))

\* float4 round (const float4& a)
float4_round(a) ==
    IF simd_sse >= 4 THEN mm_round_ps_nearest(a)
    ELSE V4(f_roundf(a[0]), f_roundf(a[1]), f_roundf(a[2]), f_roundf(a[3]))

\* int4 floori (const float4& a)
floori(a) ==
    IF simd_sse >= 4 THEN int4_from_float4(float4_floor(a))
    ELSE IF OIIO_SIMD_SSE_defined
    THEN LET i == int4_from_float4(a)
             isneg == bitcast_to_int4(float4_lt(a, float4_Zero))
         IN int4_add(i, isneg)
    ELSE V4(c_int_of_float(f_floor(a[0])), c_int_of_float(f_floor(a[1])),
            c_int_of_float(f_floor(a[2])), c_int_of_float(f_floor(a[3])))

\* int4 rint (const float4& a)
rint(a) == int4_from_float4(float4_round(a))

-----------------------------------------------------------------------------
(* Loads and stores of floats.  Memory is an array of floats indexed from  *)
(* 0 at the pointer the call is given.                                     *)

mm_load_ss_ps(values) == V4(values[0], FloatZero, FloatZero, FloatZero)
mm_load_sd_ps(values) == V4(values[0], values[1], FloatZero, FloatZero)
mm_setr_ps(e0, e1, e2, e3) == V4(e0, e1, e2, e3)
mm_loadu_ps(values) == [i \in Lanes |-> values[i]]
mm_store_ss(values, a) == [values EXCEPT ![0] = a[0]]
mm_store_sd(values, a) == [values EXCEPT ![0] = a[0], ![1] = a[1]]
mm_storeu_ps(values, a) == [i \in DOMAIN values |-> IF i \in Lanes THEN a[i] ELSE values[i]]

\* void float4::load (const float *values, int n), on an object holding
\* old: the value of the object after the call.
float4_load_n(old, values, count) ==
    IF OIIO_SIMD_SSE_defined
    THEN CASE count = 1 -> mm_load_ss_ps(values)
           [] count = 2 -> mm_load_sd_ps(values)
           [] count = 3 -> mm_setr_ps(values[0], values[1], values[2], FloatZero)
           [] count = 4 -> mm_loadu_ps(values)
           [] OTHER -> old
    ELSE [i \in Lanes |-> IF i < count THEN values[i] ELSE FloatZero]

\* The elements of values that float4::load (const float *values, int n)
\* reads.
float4_load_n_reads(count) ==
    IF OIIO_SIMD_SSE_defined
    THEN CASE count = 1 -> {0}
           [] count = 2 -> {0, 1}
           [] count = 3 -> {0, 1, 2}
           [] count = 4 -> Lanes
           [] OTHER -> {}
    ELSE {i \in Lanes : i < count}

\* void float4::store (float *values) const
float4_store(a, values) ==
    IF OIIO_SIMD_SSE_defined THEN mm_storeu_ps(values, a)
    ELSE [i \in DOMAIN values |-> IF i < elements THEN a[i] ELSE values[i]]

\* void float4::store (float *values, int n) const
float4_store_n(a, values, count) ==
    IF OIIO_SIMD_SSE_defined
    THEN CASE count = 1 -> mm_store_ss(values, a)
           [] count = 2 -> mm_store_sd(values, a)
           [] count = 3 -> [values EXCEPT ![0] = a[0], ![1] = a[1], ![2] = a[2]]
           [] count = 4 -> float4_store(a, values)
           [] OTHER -> values
    ELSE [i \in DOMAIN values |-> IF i < count THEN a[i] ELSE values[i]]

\* void float3::load (const float *values)
float3_load(old, values) == float4_load_n(old, values, 3)
float3_load_reads == float4_load_n_reads(3)

\* A store of all of the register.
float3_store_whole(a, values) == float4_store(a, values)

\* void float3::store (float *values) const
float3_store(a, values) == float4_store_n(a, values, 3)

\* void float3::store (float *values, int n) const
float3_store_n(a, values, count) == float4_store_n(a, values, count)

-----------------------------------------------------------------------------
(* Products, sums and square roots of floats, and float3::normalized.  The *)
(* numbers multiplied and added here have few enough bits for the exact    *)
(* product or sum to fit in 31 bits, and the square roots taken are of     *)
(* squares.                                                                *)

\* The product of two significands of 24 bits, na = a1 * 2^12 + a0 and
\* nb = b1 * 2^12 + b0, in units of 2^k: the partial products high, mid and
\* low are summed into the upper part upper and the lower 24 bits lower24
\* of the 48-bit product, of which the upper 30 bits are rounded.
HalfSignificand == (MantissaBits + 1) \div 2
MulRound(s, upper, lower24, k) ==
    RoundToFloat(s, upper * Pow2(6) + lower24 \div Pow2(18), k + 18, lower24 % Pow2(18) # 0)
MulCarry(s, high, mid, lowsum, k) ==
    MulRound(s, high + mid \div Pow2(HalfSignificand) + lowsum \div Pow2(24),
             lowsum % Pow2(24), k)
MulSum(s, high, mid, low, k) ==
    MulCarry(s, high, mid, low + (mid % Pow2(HalfSignificand)) * Pow2(HalfSignificand), k)
MulParts(s, a1, a0, b1, b0, k) == MulSum(s, a1 * b1, a1 * b0 + a0 * b1, a0 * b0, k)
MulWide(s, na, nb, k) ==
    MulParts(s, na \div Pow2(HalfSignificand), na % Pow2(HalfSignificand),
             nb \div Pow2(HalfSignificand), nb % Pow2(HalfSignificand), k)

\* na * nb * 2^k rounded, for na with its highest bit at ta and nb at tb:
\* at once when the product fits the integers, else from the significands
\* moved up to 24 bits.
MulNumbers(s, na, nb, k, ta, tb) ==
    IF ta + tb <= 29 THEN RoundToFloat(s, na * nb, k, FALSE)
    ELSE MulWide(s, na * Pow2(MantissaBits - ta), nb * Pow2(MantissaBits - tb),
                 k - (MantissaBits - ta) - (MantissaBits - tb))

\* a * b for the values fa of a and fb of b.
MulValues(a, b, fa, fb) ==
    CASE fa.kind = "nan" -> Quiet(a)
      [] fb.kind = "nan" -> Quiet(b)
      [] fa.kind = "inf" \/ fb.kind = "inf" ->
            IF fa.kind = "zero" \/ fb.kind = "zero" THEN FloatNaN
            ELSE InfBits((fa.s + fb.s) % 2)
      [] fa.kind = "zero" \/ fb.kind = "zero" -> SignBits((fa.s + fb.s) % 2)
      [] OTHER -> EncodeFloat(MulNumbers((fa.s + fb.s) % 2, fa.n, fb.n, fa.k + fb.k,
                                         TopBit(fa.n), TopBit(fb.n)))

\* a * b on floats
f_mul(a, b) == MulValues(a, b, DecodeFloat(a), DecodeFloat(b))

\* The number f in units of 2^k, with its sign, and the float of such a
\* sum.
SignedUnits(f, k) == (IF f.s = 1 THEN -1 ELSE 1) * f.n * Pow2(f.k - k)
EncodeSum(sum, k) ==
    IF sum = 0 THEN FloatZero
    ELSE EncodeFloat(RoundToFloat(IF sum < 0 THEN 1 ELSE 0, IF sum < 0 THEN -sum ELSE sum,
                                  k, FALSE))
AddNumbers(fa, fb, k) == EncodeSum(SignedUnits(fa, k) + SignedUnits(fb, k), k)

\* big + small for |big| >= |small| when the sum above would not fit the
\* integers: big has its highest bit at tb and is taken with five more
\* bits, in units of 2^u; small is exact in these units, or it is cut to
\* them and what was cut is remembered as sticky.
AddCut(big, small, tb, u, cut) ==
    IF big.s = small.s
    THEN EncodeFloat(RoundToFloat(big.s, big.n * Pow2(MantissaBits + 5 - tb) + cut,
                                  u, TRUE))
    ELSE EncodeFloat(RoundToFloat(big.s, big.n * Pow2(MantissaBits + 5 - tb) - cut - 1,
                                  u, TRUE))
AddAligned(big, small, tb, u) ==
    IF small.k >= u
    THEN EncodeSum((IF big.s = 1 THEN -1 ELSE 1) * big.n * Pow2(MantissaBits + 5 - tb)
                   + SignedUnits(small, u), u)
    ELSE AddCut(big, small, tb, u, IF u - small.k > 30 THEN 0 ELSE small.n \div Pow2(u - small.k))
AddWide(big, small, tb) == AddAligned(big, small, tb, tb + big.k - MantissaBits - 5)

\* fa + fb for numbers with their highest bits at the exponents ea and eb.
AddOrdered(fa, fb, ea, eb, ta, tb) ==
    IF (IF fa.k < fb.k THEN tb + fb.k - fa.k ELSE ta + fa.k - fb.k) <= 29
    THEN AddNumbers(fa, fb, IF fa.k < fb.k THEN fa.k ELSE fb.k)
    ELSE IF ea >= eb THEN AddWide(fa, fb, ta) ELSE AddWide(fb, fa, tb)
AddTops(fa, fb, ta, tb) == AddOrdered(fa, fb, ta + fa.k, tb + fb.k, ta, tb)

\* a + b for the values fa of a and fb of b.
AddValues(a, b, fa, fb) ==
    CASE fa.kind = "nan" -> Quiet(a)
      [] fb.kind = "nan" -> Quiet(b)
      [] fa.kind = "inf" -> IF fb.kind = "inf" /\ fa.s # fb.s THEN FloatNaN ELSE a
      [] fb.kind = "inf" -> b
      [] fa.kind = "zero" /\ fb.kind = "zero" ->
            SignBits(IF fa.s = 1 /\ fb.s = 1 THEN 1 ELSE 0)
      [] fa.kind = "zero" -> b
      [] fb.kind = "zero" -> a
      [] OTHER -> AddTops(fa, fb, TopBit(fa.n), TopBit(fb.n))

\* a + b on floats
f_add(a, b) == AddValues(a, b, DecodeFloat(a), DecodeFloat(b))

\* The square root of a for the value fa of a.
SqrtValue(a, fa) ==
    CASE fa.kind = "nan" -> Quiet(a)
      [] fa.kind = "zero" -> a
      [] fa.s = 1 -> FloatNaN
      [] fa.kind = "inf" -> a
      [] OTHER ->
            EncodeFloat(FNum(0, CHOOSE r \in 1 .. Pow2(MantissaBits \div 2 + 1) :
                                    r * r = fa.n /\ fa.k % 2 = 0,
                             fa.k \div 2))

\* sqrtf and a lane of _mm_sqrt_ps
f_sqrt(a) == SqrtValue(a, DecodeFloat(a))

\* _mm_set_ps takes the highest lane first.
mm_set_ps(e3, e2, e1, e0) == V4(e0, e1, e2, e3)
mm_add_ps(a, b) == [i \in Lanes |-> f_add(a[i], b[i])]
mm_mul_ps(a, b) == [i \in Lanes |-> f_mul(a[i], b[i])]
mm_sqrt_ps(a) == [i \in Lanes |-> f_sqrt(a[i])]
mm_hadd_ps(a, b) ==
    V4(f_add(a[0], a[1]), f_add(a[2], a[3]), f_add(b[0], b[1]), f_add(b[2], b[3]))

\* _mm_dp_ps (a, b, imm): the products of the lanes picked by bits 7:4 of
\* imm (+0 for the others) are summed in pairs, and the sum goes to the
\* lanes picked by bits 3:0 (+0 to the others).
mm_dp_ps(a, b, imm) ==
    LET t == [i \in Lanes |-> IF (imm \div Pow2(4 + i)) % 2 = 1 THEN f_mul(a[i], b[i])
                             ELSE FloatZero]
        sum == f_add(f_add(t[0], t[1]), f_add(t[2], t[3]))
    IN [i \in Lanes |-> IF (imm \div Pow2(i)) % 2 = 1 THEN sum ELSE FloatZero]

\* _mm_rsqrt_ps: an approximation of 1 / sqrt of each lane, here the
\* correctly rounded value or, when low holds, the float 2^11 units in the
\* last place below it; the infinity of the same sign for a zero.
RsqrtSlack == Int32(Pow2(11))
Lowered(exact, low) == IF low THEN c_sub(exact, RsqrtSlack) ELSE exact
RsqrtLane(w, fw, low) ==
    CASE fw.kind = "nan" -> Quiet(w)
      [] fw.kind = "zero" -> InfBits(fw.s)
      [] fw.s = 1 -> FloatNaN
      [] fw.kind = "inf" -> FloatZero
      [] OTHER -> Lowered(f_div(Float(0, 1, 0), f_sqrt(w)), low)
mm_rsqrt_ps(a, low) == [i \in Lanes |-> RsqrtLane(a[i], DecodeFloat(a[i]), low)]

\* float4 operator+ (const float4& a, const float4& b)
float4_add(a, b) ==
    IF OIIO_SIMD_SSE_defined THEN mm_add_ps(a, b)
    ELSE [i \in Lanes |-> f_add(a[i], b[i])]

\* float4 operator* (const float4& a, const float4& b)
float4_mul(a, b) ==
    IF OIIO_SIMD_SSE_defined THEN mm_mul_ps(a, b)
    ELSE [i \in Lanes |-> f_mul(a[i], b[i])]

\* float4 float4::xyz0 () const, float4 float4::xyz1 () const
float4_xyz0(a) == float4_insert(3, a, FloatZero)
float4_xyz1(a) == float4_insert(3, a, Float(0, 1, 0))

\* float4 vreduce_add (const float4& v)
float4_vreduce_add(v) ==
    IF simd_sse >= 3
    THEN LET ab_cd == mm_hadd_ps(v, v)
         IN mm_hadd_ps(ab_cd, ab_cd)
    ELSE IF OIIO_SIMD_SSE_defined
    THEN LET ab_ab_cd_cd == float4_add(float4_shuffle(1, 0, 3, 2, v), v)
             cd_cd_ab_ab == float4_shuffle(2, 3, 0, 1, ab_ab_cd_cd)
         IN float4_add(ab_ab_cd_cd, cd_cd_ab_ab)
    ELSE Splat(f_add(f_add(f_add(v[0], v[1]), v[2]), v[3]))

\* float reduce_add (const float4& v)
float4_reduce_add(v) ==
    IF OIIO_SIMD_SSE_defined THEN mm_cvtss_f32(float4_vreduce_add(v))
    ELSE f_add(f_add(f_add(v[0], v[1]), v[2]), v[3])

\* float4 sqrt (const float4 &a)
float4_sqrt(a) ==
    IF OIIO_SIMD_SSE_defined THEN mm_sqrt_ps(a)
    ELSE V4(f_sqrt(a[0]), f_sqrt(a[1]), f_sqrt(a[2]), f_sqrt(a[3]))

\* float4 rsqrt_fast (const float4 &a)
float4_rsqrt_fast(a, low) ==
    IF OIIO_SIMD_SSE_defined THEN mm_rsqrt_ps(a, low)
    ELSE [i \in Lanes |-> f_div(Float(0, 1, 0), f_sqrt(a[i]))]

\* float3::float3 (const float4 &other), float3::float3 (float a) and
\* float3::Zero ()
float3_from_float4(other) ==
    IF OIIO_SIMD_SSE_defined THEN other
    ELSE V4(other[0], other[1], other[2], FloatZero)
float3_from_float(a) ==
    IF OIIO_SIMD_SSE_defined THEN mm_set_ps(FloatZero, a, a, a)
    ELSE V4(a, a, a, FloatZero)
float3_Zero == float3_from_float4(float4_Zero)

\* float3 operator* (const float3& a, const float3& b)
float3_mul(a, b) == float3_from_float4(float4_mul(a, b))

\* float3 operator/ (const float3& a, const float3& b)
float3_div(a, b) == float3_from_float4(float4_div(a, float4_xyz1(b)))

\* float dot (const float3 &a, const float3 &b)
float3_dot(a, b) ==
    IF simd_sse >= 4 THEN mm_cvtss_f32(mm_dp_ps(a, b, 119))
    ELSE float4_reduce_add(float3_mul(a, b))

\* float3 vdot3 (const float3 &a, const float3 &b)
float3_vdot3(a, b) ==
    IF simd_sse >= 4 THEN float3_from_float4(mm_dp_ps(a, b, 119))
    ELSE float3_from_float4(float4_xyz0(float4_vreduce_add(float4_xyz0(float4_mul(a, b)))))

\* float3::normalized as it would be if it divided without a guard.
normalized_unguarded(a) ==
    float3_from_float4(float4_div(a, float4_sqrt(float3_vdot3(a, a))))

\* float3 float3::normalized () const
normalized(a) ==
    IF OIIO_SIMD_SSE_defined
    THEN LET len2 == float3_vdot3(a, a)
         IN float3_from_float4(safe_div(a, float4_sqrt(len2)))
    ELSE LET len2 == float3_dot(a, a)
         IN IF f_lt(FloatZero, len2) THEN float3_div(a, float3_from_float(f_sqrt(len2)))
            ELSE float3_Zero

\* float3 float3::normalized_fast () const
normalized_fast(a, low) ==
    IF OIIO_SIMD_SSE_defined
    THEN LET len2 == float3_vdot3(a, a)
             invlen == float4_blend0not(float4_rsqrt_fast(len2, low),
                                        float4_eq(len2, float4_Zero))
         IN float3_from_float4(float4_mul(a, invlen))
    ELSE LET len2 == float3_dot(a, a)
         IN IF f_lt(FloatZero, len2) THEN float3_div(a, float3_from_float(f_sqrt(len2)))
            ELSE float3_Zero

-----------------------------------------------------------------------------
(* matrix44: four rows of four floats, m_row[0 .. 3] on the SSE builds and *)
(* the Imath::M44f m_mat otherwise.                                        *)

Rows == 0 .. 3
Matrix(r0, r1, r2, r3) ==
    [i \in Rows |-> CASE i = 0 -> r0 [] i = 1 -> r1 [] i = 2 -> r2 [] OTHER -> r3]

\* _mm_unpacklo_ps and _mm_unpackhi_ps interleave the low, respectively
\* the high, two lanes of a and b.
mm_unpacklo_ps(a, b) == V4(a[0], b[0], a[1], b[1])
mm_unpackhi_ps(a, b) == V4(a[2], b[2], a[3], b[3])

\* void float4::load (float a, float b, float c, float d)
float4_load4(a, b, c, d) ==
    IF OIIO_SIMD_SSE_defined THEN mm_set_ps(d, c, b, a) ELSE V4(a, b, c, d)

\* transpose as it would be if it interleaved a with b and c with d.
transpose_adjacent_rows(a, b, c, d) ==
    LET l01 == mm_unpacklo_ps(a, b)
        h01 == mm_unpackhi_ps(a, b)
        l23 == mm_unpacklo_ps(c, d)
        h23 == mm_unpackhi_ps(c, d)
    IN Matrix(mm_unpacklo_ps(l01, l23), mm_unpackhi_ps(l01, l23),
              mm_unpacklo_ps(h01, h23), mm_unpackhi_ps(h01, h23))

\* void transpose (const float4& a, const float4& b, const float4& c,
\* const float4& d, float4 &r0, float4 &r1, float4 &r2, float4 &r3): the
\* rows r0 .. r3 it leaves.
transpose(a, b, c, d) ==
    IF OIIO_SIMD_SSE_defined
    THEN LET l02 == mm_unpacklo_ps(a, c)
             h02 == mm_unpackhi_ps(a, c)
             l13 == mm_unpacklo_ps(b, d)
             h13 == mm_unpackhi_ps(b, d)
         IN Matrix(mm_unpacklo_ps(l02, l13), mm_unpackhi_ps(l02, l13),
                   mm_unpacklo_ps(h02, h13), mm_unpackhi_ps(h02, h13))
    ELSE Matrix(float4_load4(a[0], b[0], c[0], d[0]),
                float4_load4(a[1], b[1], c[1], d[1]),
                float4_load4(a[2], b[2], c[2], d[2]),
                float4_load4(a[3], b[3], c[3], d[3]))

\* Imath::M44f::transposed (): the matrix with rows and columns exchanged.
Imath_transposed(M) == [i \in Rows |-> [j \in Lanes |-> M[j][i]]]

\* matrix44 matrix44::transposed () const
matrix44_transposed(M) ==
    IF OIIO_SIMD_SSE_defined THEN transpose(M[0], M[1], M[2], M[3])
    ELSE Imath_transposed(M)

\* _mm_cmpneq_ps: all ones where the lanes are not equal or are unordered.
mm_cmpneq_ps(a, b) == [i \in Lanes |-> IF f_eq(a[i], b[i]) THEN Zero32 ELSE Ones32]

\* mask4 operator!= (const float4& a, const float4& b)
float4_ne(a, b) ==
    IF OIIO_SIMD_SSE_defined THEN mm_cmpneq_ps(a, b)
    ELSE [i \in Lanes |-> IF ~f_eq(a[i], b[i]) THEN IntNegOne ELSE IntZero]

\* void float4::load (const float *values)
float4_load(values) ==
    IF OIIO_SIMD_SSE_defined THEN mm_loadu_ps(values)
    ELSE [i \in Lanes |-> values[i]]

\* matrix44::matrix44 (const Imath::M44f &M)
matrix44_from_Imath(M) ==
    IF OIIO_SIMD_SSE_defined
    THEN Matrix(float4_load(M[0]), float4_load(M[1]), float4_load(M[2]), float4_load(M[3]))
    ELSE M

\* memcmp (a, b, 16*sizeof(float)) == 0 on two matrices: the sixteen floats
\* hold the same bits.
memcmp_equal(a, b) == \A i \in Rows, j \in Lanes : a[i][j] = b[i][j]

\* bool matrix44::operator== (const matrix44& m) const
matrix44_eq(a, b) ==
    IF OIIO_SIMD_SSE_defined
    THEN LET b0 == float4_eq(a[0], b[0])
             b1 == float4_eq(a[1], b[1])
             b2 == float4_eq(a[2], b[2])
             b3 == float4_eq(a[3], b[3])
         IN all(mask4_and(mask4_and(mask4_and(b0, b1), b2), b3))
    ELSE memcmp_equal(a, b)

\* bool matrix44::operator!= (const matrix44& m) const
matrix44_ne(a, b) ==
    IF OIIO_SIMD_SSE_defined
    THEN LET b0 == float4_ne(a[0], b[0])
             b1 == float4_ne(a[1], b[1])
             b2 == float4_ne(a[2], b[2])
             b3 == float4_ne(a[3], b[3])
         IN any(mask4_or(mask4_or(mask4_or(b0, b1), b2), b3))
    ELSE ~memcmp_equal(a, b)

\* bool matrix44::operator== (const Imath::M44f& m) const, and operator!=
matrix44_eq_Imath(a, b) == memcmp_equal(a, b)
matrix44_ne_Imath(a, b) == ~memcmp_equal(a, b)

\* float4 (const Imath::V3f &v), float3 (const Imath::V3f &v)
float3_from_V3f(v) == V4(v[0], v[1], v[2], FloatZero)

\* Imath::M44f::multVecMatrix (src, dst): the row vector (src, 1) times the
\* matrix, divided by its fourth component.
multVecLane(M, src, j) ==
    f_add(f_add(f_add(f_mul(src[0], M[0][j]), f_mul(src[1], M[1][j])),
                f_mul(src[2], M[2][j])),
          M[3][j])
multVecMatrix(M, src) ==
    LET w == multVecLane(M, src, 3)
    IN [j \in 0 .. 2 |-> f_div(multVecLane(M, src, j), w)]

\* The rows of M scaled by the lanes of V and summed: the part transformp
\* and transformv share.
transform_rows(M, V) ==
    float4_add(float4_add(float4_mul(float4_shuffle1(0, V), M[0]),
                          float4_mul(float4_shuffle1(1, V), M[1])),
               float4_mul(float4_shuffle1(2, V), M[2]))

\* transformp without the translation row.
transformp_untranslated(M, V) ==
    IF OIIO_SIMD_SSE_defined
    THEN LET sum == transform_rows(M, V)
         IN float3_from_float4(float4_xyz0(float4_div(sum, float4_shuffle1(3, sum))))
    ELSE float3_from_V3f(multVecMatrix([M EXCEPT ![3] = Splat(FloatZero)], V))

\* float3 matrix44::transformp (const float3 &V) const
matrix44_transformp(M, V) ==
    IF OIIO_SIMD_SSE_defined
    THEN LET sum == float4_add(transform_rows(M, V), M[3])
         IN float3_from_float4(float4_xyz0(float4_div(sum, float4_shuffle1(3, sum))))
    ELSE float3_from_V3f(multVecMatrix(M, V))

\* _mm_abs_epi32: a negative lane is negated, in 32 bits.
mm_abs_epi32(a) == [i \in Lanes |-> IF SignBit \in a[i] THEN c_sub(IntZero, a[i]) ELSE a[i]]

\* std::abs (int): the negation of INT_MIN overflows, which is undefined;
\* the call then returns overflowed.
std_abs(v, overflowed) ==
    IF v = {SignBit} THEN overflowed
    ELSE IF SignBit \in v THEN c_sub(IntZero, v) ELSE v

\* int4 abs (const int4& a)
int4_abs(a, overflowed) ==
    IF simd_sse >= 3 THEN mm_abs_epi32(a)
    ELSE V4(std_abs(a[0], overflowed), std_abs(a[1], overflowed),
            std_abs(a[2], overflowed), std_abs(a[3], overflowed))

-----------------------------------------------------------------------------
(* matrix44::inverse.  The SSE code is a straight line of assignments to   *)
(* ten float4 variables; it is kept as the list of its statements, each    *)
(* <<operation, target, operands>>, and run on the variables in order.  A  *)
(* statement with an operation inside another is two or three, the inner   *)
(* results going to the variables "t" and "u".                             *)

\* a - b on floats
f_sub(a, b) ==
    IF IsNaN(b) /\ ~IsNaN(a) THEN Quiet(b)
    ELSE f_add(a, (b \ {SignBit}) \cup (IF SignBit \in b THEN {} ELSE {SignBit}))

mm_sub_ps(a, b) == [i \in Lanes |-> f_sub(a[i], b[i])]

\* float4 operator- (const float4& a, const float4& b)
float4_sub(a, b) ==
    IF OIIO_SIMD_SSE_defined THEN mm_sub_ps(a, b)
    ELSE [i \in Lanes |-> f_sub(a[i], b[i])]

\* _mm_loadl_pi and _mm_loadh_pi: the two floats at src + p become the low,
\* respectively the high, two lanes of a.
mm_loadl_pi(a, src, p) == V4(src[p], src[p + 1], a[2], a[3])
mm_loadh_pi(a, src, p) == V4(a[0], a[1], src[p], src[p + 1])

\* _mm_shuffle_ps: two lanes of a, then two lanes of b, picked by the four
\* pairs of bits of imm.
mm_shuffle_ps(a, b, imm) ==
    V4(a[imm % 4], a[(imm \div 4) % 4], b[(imm \div 16) % 4], b[(imm \div 64) % 4])

\* _mm_add_ss, _mm_sub_ss, _mm_mul_ss: the lowest lane of a and b, the
\* other lanes of a.
mm_add_ss(a, b) == V4(f_add(a[0], b[0]), a[1], a[2], a[3])
mm_sub_ss(a, b) == V4(f_sub(a[0], b[0]), a[1], a[2], a[3])
mm_mul_ss(a, b) == V4(f_mul(a[0], b[0]), a[1], a[2], a[3])

\* _mm_rcp_ss: an approximation of 1 / the lowest lane, of relative error
\* at most 1.5 * 2^-12: here the correctly rounded value (err = 0) or the
\* float 2^11 units in the last place below (err = -1) or above it
\* (err = 1).
RcpSlack == Int32(Pow2(11))
RcpOutcomes == {-1, 0, 1}
Nudged(exact, err) ==
    CASE err = -1 -> c_sub(exact, RcpSlack)
      [] err = 1 -> c_add(exact, RcpSlack)
      [] OTHER -> exact
RcpLane(w, fw, err) ==
    CASE fw.kind = "nan" -> Quiet(w)
      [] fw.kind = "zero" -> InfBits(fw.s)
      [] fw.kind = "inf" -> SignBits(fw.s)
      [] OTHER -> Nudged(f_div(Float(0, 1, 0), w), err)
mm_rcp_ss(a, err) == V4(RcpLane(a[0], DecodeFloat(a[0]), err), a[1], a[2], a[3])

\* const float *src = (const float *)this
matrix44_floats(M) == [p \in 0 .. 15 |-> M[p \div 4][p % 4]]

\* The variables of inverse (), and zero = float4::Zero ().
inverse_variables ==
    {"minor0", "minor1", "minor2", "minor3", "row0", "row1", "row2", "row3",
     "det", "tmp1", "zero", "t", "u"}
inverse_entry == [v \in inverse_variables |-> float4_Zero]

\* The columns of the matrix are loaded into row0..row3, row1 and row3
\* with their halves swapped; "load" is _mm_loadh_pi (_mm_loadl_pi (a,
\* src+p), src+q).
inverse_loads ==
    << <<"load", "tmp1", "zero", 0, 4>>,
       <<"load", "row1", "zero", 8, 12>>,
       <<"shuffle_ps", "row0", "tmp1", "row1", 136>>,
       <<"shuffle_ps", "row1", "row1", "tmp1", 221>>,
       <<"load", "tmp1", "tmp1", 2, 6>>,
       <<"load", "row3", "zero", 10, 14>>,
       <<"shuffle_ps", "row2", "tmp1", "row3", 136>>,
       <<"shuffle_ps", "row3", "row3", "tmp1", 221>> >>

\* The cofactors, in the six blocks of the source.
inverse_minors ==
    << <<"mul", "tmp1", "row2", "row3">>,
       <<"shuffle", "tmp1", <<1, 0, 3, 2>>, "tmp1">>,
       <<"mul", "minor0", "row1", "tmp1">>,
       <<"mul", "minor1", "row0", "tmp1">>,
       <<"shuffle", "tmp1", <<2, 3, 0, 1>>, "tmp1">>,
       <<"mul", "t", "row1", "tmp1">>, <<"sub", "minor0", "t", "minor0">>,
       <<"mul", "t", "row0", "tmp1">>, <<"sub", "minor1", "t", "minor1">>,
       <<"shuffle", "minor1", <<2, 3, 0, 1>>, "minor1">>,
       \* -----------------------------------------------
       <<"mul", "tmp1", "row1", "row2">>,
       <<"shuffle", "tmp1", <<1, 0, 3, 2>>, "tmp1">>,
       <<"mul", "t", "row3", "tmp1">>, <<"add", "minor0", "t", "minor0">>,
       <<"mul", "minor3", "row0", "tmp1">>,
       <<"shuffle", "tmp1", <<2, 3, 0, 1>>, "tmp1">>,
       <<"mul", "t", "row3", "tmp1">>, <<"sub", "minor0", "minor0", "t">>,
       <<"mul", "t", "row0", "tmp1">>, <<"sub", "minor3", "t", "minor3">>,
       <<"shuffle", "minor3", <<2, 3, 0, 1>>, "minor3">>,
       \* -----------------------------------------------
       <<"shuffle", "t", <<2, 3, 0, 1>>, "row1">>, <<"mul", "tmp1", "t", "row3">>,
       <<"shuffle", "tmp1", <<1, 0, 3, 2>>, "tmp1">>,
       <<"shuffle", "row2", <<2, 3, 0, 1>>, "row2">>,
       <<"mul", "t", "row2", "tmp1">>, <<"add", "minor0", "t", "minor0">>,
       <<"mul", "minor2", "row0", "tmp1">>,
       <<"shuffle", "tmp1", <<2, 3, 0, 1>>, "tmp1">>,
       <<"mul", "t", "row2", "tmp1">>, <<"sub", "minor0", "minor0", "t">>,
       <<"mul", "t", "row0", "tmp1">>, <<"sub", "minor2", "t", "minor2">>,
       <<"shuffle", "minor2", <<2, 3, 0, 1>>, "minor2">>,
       \* -----------------------------------------------
       <<"mul", "tmp1", "row0", "row1">>,
       <<"shuffle", "tmp1", <<1, 0, 3, 2>>, "tmp1">>,
       <<"mul", "t", "row3", "tmp1">>, <<"add", "minor2", "t", "minor2">>,
       <<"mul", "t", "row2", "tmp1">>, <<"sub", "minor3", "t", "minor3">>,
       <<"shuffle", "tmp1", <<2, 3, 0, 1>>, "tmp1">>,
       <<"mul", "t", "row3", "tmp1">>, <<"sub", "minor2", "t", "minor2">>,
       <<"mul", "t", "row2", "tmp1">>, <<"sub", "minor3", "minor3", "t">>,
       \* -----------------------------------------------
       <<"mul", "tmp1", "row0", "row3">>,
       <<"shuffle", "tmp1", <<1, 0, 3, 2>>, "tmp1">>,
       <<"mul", "t", "row2", "tmp1">>, <<"sub", "minor1", "minor1", "t">>,
       <<"mul", "t", "row1", "tmp1">>, <<"add", "minor2", "t", "minor2">>,
       <<"shuffle", "tmp1", <<2, 3, 0, 1>>, "tmp1">>,
       <<"mul", "t", "row2", "tmp1">>, <<"add", "minor1", "t", "minor1">>,
       <<"mul", "t", "row1", "tmp1">>, <<"sub", "minor2", "minor2", "t">>,
       \* -----------------------------------------------
       <<"mul", "tmp1", "row0", "row2">>,
       <<"shuffle", "tmp1", <<1, 0, 3, 2>>, "tmp1">>,
       <<"mul", "t", "row3", "tmp1">>, <<"add", "minor1", "t", "minor1">>,
       <<"mul", "t", "row1", "tmp1">>, <<"sub", "minor3", "minor3", "t">>,
       <<"shuffle", "tmp1", <<2, 3, 0, 1>>, "tmp1">>,
       <<"mul", "t", "row3", "tmp1">>, <<"sub", "minor1", "minor1", "t">>,
       <<"mul", "t", "row1", "tmp1">>, <<"add", "minor3", "t", "minor3">> >>

\* The determinant, in the lowest lane of det.
inverse_determinant ==
    << <<"mul", "det", "row0", "minor0">>,
       <<"shuffle", "t", <<2, 3, 0, 1>>, "det">>, <<"add", "det", "t", "det">>,
       <<"shuffle", "t", <<1, 0, 3, 2>>, "det">>, <<"add_ss", "det", "t", "det">> >>

\* The reciprocal of the determinant as _mm_rcp_ss gives it, not refined.
reciprocal_unrefined ==
    << <<"rcp_ss", "tmp1", "det">>,
       <<"shuffle", "det", <<0, 0, 0, 0>>, "tmp1">> >>

\* The reciprocal of the determinant: _mm_rcp_ss and one step of Newton's
\* method, 2 * tmp1 - det * tmp1 * tmp1, in every lane of det.
inverse_reciprocal ==
    << <<"rcp_ss", "tmp1", "det">>,
       <<"add_ss", "u", "tmp1", "tmp1">>,
       <<"mul_ss", "t", "tmp1", "tmp1">>, <<"mul_ss", "t", "det", "t">>,
       <<"sub_ss", "det", "u", "t">>,
       <<"shuffle", "det", <<0, 0, 0, 0>>, "det">> >>

\* det*minor0, det*minor1, det*minor2, det*minor3
inverse_scaling ==
    << <<"mul", "minor0", "det", "minor0">>, <<"mul", "minor1", "det", "minor1">>,
       <<"mul", "minor2", "det", "minor2">>, <<"mul", "minor3", "det", "minor3">> >>

\* One statement s run on the variables vs, reading the floats src, with
\* the outcome err of _mm_rcp_ss.
inverse_value(vs, s, src, err) ==
    CASE s[1] = "load" -> mm_loadh_pi(mm_loadl_pi(vs[s[3]], src, s[4]), src, s[5])
      [] s[1] = "shuffle_ps" -> mm_shuffle_ps(vs[s[3]], vs[s[4]], s[5])
      [] s[1] = "shuffle" -> float4_shuffle(s[3][1], s[3][2], s[3][3], s[3][4], vs[s[4]])
      [] s[1] = "mul" -> float4_mul(vs[s[3]], vs[s[4]])
      [] s[1] = "add" -> float4_add(vs[s[3]], vs[s[4]])
      [] s[1] = "sub" -> float4_sub(vs[s[3]], vs[s[4]])
      [] s[1] = "add_ss" -> mm_add_ss(vs[s[3]], vs[s[4]])
      [] s[1] = "sub_ss" -> mm_sub_ss(vs[s[3]], vs[s[4]])
      [] s[1] = "mul_ss" -> mm_mul_ss(vs[s[3]], vs[s[4]])
      [] OTHER -> mm_rcp_ss(vs[s[3]], err)

\* The statements of code from the i-th on, run on the variables vs.
\* One statement of inverse (): the variables after it.
inverse_step(s, vs, src, err) ==
    LET v == inverse_value(vs, s, src, err)
    IN IF v = vs[s[2]] THEN vs ELSE [vs EXCEPT ![s[2]] = v]

RECURSIVE inverse_span(_, _, _, _, _, _)
inverse_span(code, first, last, vs, src, err) ==
    IF first > last THEN vs
    ELSE IF first = last THEN inverse_step(code[first], vs, src, err)
    ELSE LET half == inverse_span(code, first, (first + last) \div 2, vs, src, err)
         IN IF DOMAIN half = {} THEN half
            ELSE inverse_span(code, (first + last) \div 2 + 1, last, half, src, err)

inverse_run(code, i, vs, src, err) == inverse_span(code, i, Len(code), vs, src, err)

\* The matrix inverse () returns from the variables at its end.
inverse_result(vs) == Matrix(vs["minor0"], vs["minor1"], vs["minor2"], vs["minor3"])

\* Imath::M44f::inverse (), of the Imath library, on a matrix whose inverse
\* consists of floats: that inverse, the cofactors divided by the
\* determinant.
Imath_scaled(vs, r) ==
    Matrix(mm_mul_ps(r, vs["minor0"]), mm_mul_ps(r, vs["minor1"]),
           mm_mul_ps(r, vs["minor2"]), mm_mul_ps(r, vs["minor3"]))
Imath_divided(vs) == Imath_scaled(vs, Splat(f_div(Float(0, 1, 0), vs["det"][0])))
Imath_inverse(M) ==
    Imath_divided(inverse_run(inverse_loads \o inverse_minors \o inverse_determinant,
                              1, inverse_entry, matrix44_floats(M), 0))

\* matrix44 matrix44::inverse () const, with the outcome err of _mm_rcp_ss
matrix44_inverse(M, err) ==
    IF OIIO_SIMD_SSE_defined
    THEN inverse_result(
             inverse_run(inverse_loads \o inverse_minors \o inverse_determinant
                         \o inverse_reciprocal \o inverse_scaling,
                         1, inverse_entry, matrix44_floats(M), err))
    ELSE Imath_inverse(M)

-----------------------------------------------------------------------------
(* The builds and the values the client passes in *)

\* OIIO_SIMD_SSE: not defined (0), 2, 3 (SSSE3) or 4 (SSE4.1 / 4.2)
Backends == {0, 2, 3, 4}

\* The lane values of the int4 operands: the ends of the int range, the
\* 16-bit boundary and a value with no two bytes alike.
IntLaneInputs ==
    <<0, 1, -1, 2147483647, -2147483647 - 1, 65535, -65536, 305419896>>

\* int4 operands: four consecutive values of IntLaneInputs (cyclically), so
\* that the four lanes differ, and the operands of the spec's example.
Int4Inputs ==
    { [l \in Lanes |-> Int32(IntLaneInputs[((j + l) % Len(IntLaneInputs)) + 1])] :
        j \in 0 .. Len(IntLaneInputs) - 1 }
    \cup { V4(Int32(1), Int32(2), Int32(3), Int32(4)),
           V4(Int32(4), Int32(3), Int32(2), Int32(1)) }

\* The right-hand operands of the int4 comparisons in SpecMask.
CompareInputs ==
    { V4(Int32(1), Int32(2), Int32(3), Int32(4)),
      V4(Int32(-1), Int32(2147483647), Int32(3), Int32(-2147483647 - 1)) }

\* The ints a client stores through int& mask4::operator[]: 0, -1, and 1,
\* which is what `mask[i] = true` stores.
MaskIntInputs == {Int32(0), Int32(-1), Int32(1)}

\* The masks mask4(bool,bool,bool,bool) constructs.
BoolMasks ==
    { mask4_load4(a, b, c, d) : a \in BOOLEAN, b \in BOOLEAN, c \in BOOLEAN, d \in BOOLEAN }

NoBools == [l \in Lanes |-> FALSE]
NoMem == [l \in Lanes |-> NatBits(0, CharBits)]

BuildInit ==
    /\ simd_sse \in Backends
    /\ char_signed \in BOOLEAN

CallIdle ==
    /\ op = ""
    /\ x = Splat(Zero32)
    /\ y = Splat(Zero32)
    /\ n = 0
    /\ bools = NoBools
    /\ mem = NoMem
    /\ res = Splat(Zero32)
    /\ sres = Zero32
    /\ bres = FALSE
    /\ idx = <<>>
    /\ arg = Zero32
    /\ dst0 = <<>>
    /\ dst = <<>>
    /\ reads = {}
    /\ mat0 = <<>>
    /\ mat = <<>>
    /\ tmat = <<>>
    /\ nmat = <<>>

\* parallel_image and the dispatch macros before any call of them.
NoImage == [type |-> "UNKNOWN", pixels |-> "", error |-> ""]
ParallelVars == <<args, threads_attribute, pc, nthreads, roi, locals, threads, joined, calls>>
DispatchVars == <<macro, R, Rtmp, ret, invoked>>
ParallelIdle ==
    /\ args = <<>>
    /\ threads_attribute = 1
    /\ pc = ""
    /\ nthreads = 0
    /\ roi = <<>>
    /\ locals = <<>>
    /\ threads = <<>>
    /\ joined = 0
    /\ calls = <<>>
DispatchIdle ==
    /\ macro = <<>>
    /\ R = NoImage
    /\ Rtmp = NoImage
    /\ ret = FALSE
    /\ invoked = <<>>

SameBuild == UNCHANGED <<simd_sse, char_signed>>
BuildFrame == SameBuild /\ UNCHANGED ParallelVars /\ UNCHANGED DispatchVars
CallFrame ==
    UNCHANGED <<op, x, y, n, bools, mem, res, sres, bres, idx, arg, dst0, dst, reads, mat0, mat, tmat, nmat>>

-----------------------------------------------------------------------------
(* SpecMask: a client operating on one mask4 object m through the public   *)
(* interface.  The other operand of a binary operator is a mask built from *)
(* four bools, or m itself.                                                *)

MaskInit ==
    /\ BuildInit
    /\ \E a \in BOOLEAN : m = mask4_load(a)
    /\ CallIdle
    /\ ParallelIdle
    /\ DispatchIdle

MaskFrame == BuildFrame /\ CallFrame

Others == BoolMasks \cup {m}

\* mask4 (bool a)
Construct1 == \E a \in BOOLEAN : m' = mask4_load(a) /\ MaskFrame
\* mask4 (bool a, bool b, bool c, bool d)
Construct4 == \E o \in BoolMasks : m' = o /\ MaskFrame
\* mask4 (const int4 &i)
ConstructInt4 == \E i \in Int4Inputs : m' = mask4_from_int4(i) /\ MaskFrame
Clear == m' = mask4_clear /\ MaskFrame
AssignTrue == m' = mask4_True /\ MaskFrame
AssignFalse == m' = mask4_False /\ MaskFrame
\* const mask4 & mask4::operator= (bool a)
AssignBool == \E a \in BOOLEAN : m' = mask4_load(a) /\ MaskFrame
\* const mask4 & mask4::operator= (const mask4 & other)
AssignMask == \E o \in BoolMasks : m' = o /\ MaskFrame
\* m[i] = val, through int& mask4::operator[] (int i)
SetComponent ==
    \E i \in Lanes, val \in MaskIntInputs : m' = mask4_set(m, i, val) /\ MaskFrame
Insert == \E i \in Lanes, val \in BOOLEAN : m' = mask4_insert(i, m, val) /\ MaskFrame
Shuffle ==
    \E i0 \in Lanes, i1 \in Lanes, i2 \in Lanes, i3 \in Lanes :
        m' = mask4_shuffle(i0, i1, i2, i3, m) /\ MaskFrame
Shuffle1 == \E i \in Lanes : m' = mask4_shuffle1(i, m) /\ MaskFrame
Not == m' = mask4_not(m) /\ MaskFrame
Complement == m' = mask4_compl(m) /\ MaskFrame
And == \E o \in Others : m' = mask4_and(m, o) /\ MaskFrame
Or == \E o \in Others : m' = mask4_or(m, o) /\ MaskFrame
Xor == \E o \in Others : m' = mask4_xor(m, o) /\ MaskFrame
\* m &= o, m |= o, m ^= o: *this = *this op o
AndAssign == \E o \in Others : m' = mask4_and(m, o) /\ MaskFrame
OrAssign == \E o \in Others : m' = mask4_or(m, o) /\ MaskFrame
XorAssign == \E o \in Others : m' = mask4_xor(m, o) /\ MaskFrame
Equal == \E o \in Others : m' = mask4_eq(m, o) /\ MaskFrame
NotEqual == \E o \in Others : m' = mask4_ne(m, o) /\ MaskFrame
\* m = (a == b), (a != b), (a < b), (a > b), (a >= b), (a <= b) on int4
CompareInt4 ==
    \E a \in Int4Inputs, b \in CompareInputs :
        /\ m' \in {int4_eq(a, b), int4_ne(a, b), int4_lt(a, b),
                   int4_gt(a, b), int4_ge(a, b), int4_le(a, b)}
        /\ MaskFrame

MaskNext ==
    \/ Construct1 \/ Construct4 \/ ConstructInt4
    \/ Clear \/ AssignTrue \/ AssignFalse \/ AssignBool \/ AssignMask
    \/ SetComponent \/ Insert \/ Shuffle \/ Shuffle1
    \/ Not \/ Complement \/ And \/ Or \/ Xor
    \/ AndAssign \/ OrAssign \/ XorAssign
    \/ Equal \/ NotEqual \/ CompareInt4

SpecMask == MaskInit /\ [][MaskNext]_vars

\* A lane is canonical when it is all bits zero or all bits one.
CanonicalLane(a) == a = Zero32 \/ a = Ones32
Canonical(a) == \A l \in Lanes : CanonicalLane(a[l])

\* C1: in every state a client reaches through the public mask4
\* operations (construction, clear, True, False, assignment, operator[]
\* returning int&, insert, shuffle, the logical operators and their
\* compound forms, == and !=, the int4 comparisons), every lane of the
\* mask is all bits zero or all bits one.
C1_MaskCanonical == Canonical(m)

-----------------------------------------------------------------------------
(* Spec: one call of one operation of simd.h on operands the client        *)
(* chooses.  x, y, n, bools and mem hold the operands, res, sres and bres  *)
(* the returned vector, int and bool.                                      *)

\* The mask operands: a mask built from four bools, possibly with one int
\* stored into its first or last lane through int& operator[].
MaskInputs ==
    BoolMasks
    \cup { mask4_set(o, i, val) : o \in BoolMasks, i \in {0, elements - 1}, val \in MaskIntInputs }

\* The shift and rotation counts: 0 .. 31 and the word size itself.
ShiftCounts == 0 .. WordBits

\* The elements of the narrow arrays: the ends of the unsigned and of the
\* signed range and values on both sides of the sign bit.
ShortInputs == <<0, 1, 32767, 32768, 65535, 4660, 32769, 255>>
CharInputs == <<0, 1, 127, 128, 255, 90, 129, 240>>
ShortArrays ==
    { [l \in Lanes |-> NatBits(ShortInputs[((j + l) % Len(ShortInputs)) + 1], ShortBits)] :
        j \in 0 .. Len(ShortInputs) - 1 }
CharArrays ==
    { [l \in Lanes |-> NatBits(CharInputs[((j + l) % Len(CharInputs)) + 1], CharBits)] :
        j \in 0 .. Len(CharInputs) - 1 }

Init ==
    /\ BuildInit
    /\ m = mask4_False
    /\ CallIdle
    /\ ParallelIdle
    /\ DispatchIdle

Frame == BuildFrame /\ UNCHANGED m

\* A call that takes vector operands a and b and returns the vector r.
VecCall(name, a, b, r) ==
    /\ op' = name
    /\ x' = a
    /\ y' = b
    /\ res' = r
    /\ UNCHANGED <<n, bools, mem, sres, bres, idx, arg, dst0, dst, reads, mat0, mat, tmat, nmat>>
    /\ Frame

\* A call that takes the vector a and the count bits and returns r.
ShiftCall(name, a, bits, r) ==
    /\ op' = name
    /\ x' = a
    /\ n' = bits
    /\ res' = r
    /\ UNCHANGED <<y, bools, mem, sres, bres, idx, arg, dst0, dst, reads, mat0, mat, tmat, nmat>>
    /\ Frame

\* The mask mask4(b[0], b[1], b[2], b[3]), or mask4(b[0]) with one bool.
BuiltMask(b, one) ==
    IF one THEN mask4_load(b[0]) ELSE mask4_load4(b[0], b[1], b[2], b[3])

\* A reduction of the mask v built from the bools b to the bool r.
BoolCall(name, b, v, r) ==
    /\ op' = name
    /\ bools' = b
    /\ x' = v
    /\ bres' = r
    /\ UNCHANGED <<y, n, mem, res, sres, idx, arg, dst0, dst, reads, mat0, mat, tmat, nmat>>
    /\ Frame

\* A load of the narrow array values.
LoadCall(name, values, r) ==
    /\ op' = name
    /\ mem' = values
    /\ res' = r
    /\ UNCHANGED <<x, y, n, bools, sres, bres, idx, arg, dst0, dst, reads, mat0, mat, tmat, nmat>>
    /\ Frame

MaskNot ==
    /\ op = ""
    /\ \E a \in MaskInputs : VecCall("not", a, a, mask4_not(a))
MaskAnd ==
    /\ op = ""
    /\ \E a \in MaskInputs, b \in MaskInputs : VecCall("and", a, b, mask4_and(a, b))
MaskOr ==
    /\ op = ""
    /\ \E a \in MaskInputs, b \in MaskInputs : VecCall("or", a, b, mask4_or(a, b))
MaskXor ==
    /\ op = ""
    /\ \E a \in MaskInputs, b \in MaskInputs : VecCall("xor", a, b, mask4_xor(a, b))
MaskEq ==
    /\ op = ""
    /\ \E a \in MaskInputs, b \in MaskInputs : VecCall("eq", a, b, mask4_eq(a, b))
MaskNe ==
    /\ op = ""
    /\ \E a \in MaskInputs, b \in MaskInputs : VecCall("ne", a, b, mask4_ne(a, b))

CallAll ==
    /\ op = ""
    /\ \E b \in [Lanes -> BOOLEAN], one \in BOOLEAN :
        /\ one => \A l \in Lanes : b[l] = b[0]
        /\ BoolCall("all", b, BuiltMask(b, one), all(BuiltMask(b, one)))
CallAny ==
    /\ op = ""
    /\ \E b \in [Lanes -> BOOLEAN], one \in BOOLEAN :
        /\ one => \A l \in Lanes : b[l] = b[0]
        /\ BoolCall("any", b, BuiltMask(b, one), any(BuiltMask(b, one)))
CallNone ==
    /\ op = ""
    /\ \E b \in [Lanes -> BOOLEAN], one \in BOOLEAN :
        /\ one => \A l \in Lanes : b[l] = b[0]
        /\ BoolCall("none", b, BuiltMask(b, one), none(BuiltMask(b, one)))

IntAdd ==
    /\ op = ""
    /\ \E a \in Int4Inputs, b \in Int4Inputs : VecCall("add", a, b, int4_add(a, b))
IntSub ==
    /\ op = ""
    /\ \E a \in Int4Inputs, b \in Int4Inputs : VecCall("sub", a, b, int4_sub(a, b))
IntMul ==
    /\ op = ""
    /\ \E a \in Int4Inputs, b \in Int4Inputs : VecCall("mul", a, b, int4_mul(a, b))

ShiftLeft ==
    /\ op = ""
    /\ \E a \in Int4Inputs, bits \in ShiftCounts, count_masked \in BOOLEAN :
        ShiftCall("shl", a, bits, int4_shl(a, bits, count_masked))
ShiftRight ==
    /\ op = ""
    /\ \E a \in Int4Inputs, bits \in ShiftCounts, count_masked \in BOOLEAN :
        ShiftCall("shr", a, bits, int4_shr(a, bits, count_masked))
ShiftRightLogical ==
    /\ op = ""
    /\ \E a \in Int4Inputs, bits \in ShiftCounts, count_masked \in BOOLEAN :
        ShiftCall("srl", a, bits, srl(a, bits, count_masked))
Rotate ==
    /\ op = ""
    /\ \E a \in Int4Inputs, k \in ShiftCounts, count_masked \in BOOLEAN :
        ShiftCall("rotl32", a, k, rotl32(a, k, count_masked))

VReduceAdd ==
    /\ op = ""
    /\ \E v \in Int4Inputs : VecCall("vreduce_add", v, v, vreduce_add(v))
ReduceAdd ==
    /\ op = ""
    /\ \E v \in Int4Inputs :
        /\ op' = "reduce_add"
        /\ x' = v
        /\ sres' = reduce_add(v)
        /\ UNCHANGED <<y, n, bools, mem, res, bres, idx, arg, dst0, dst, reads, mat0, mat, tmat, nmat>>
        /\ Frame

LoadUShort ==
    /\ op = ""
    /\ \E values \in ShortArrays : LoadCall("load_ushort", values, int4_load_ushort(values))
LoadShort ==
    /\ op = ""
    /\ \E values \in ShortArrays : LoadCall("load_short", values, int4_load_short(values))
LoadUChar ==
    /\ op = ""
    /\ \E values \in CharArrays : LoadCall("load_uchar", values, int4_load_uchar(values))
LoadChar ==
    /\ op = ""
    /\ \E values \in CharArrays : LoadCall("load_char", values, int4_load_char(values))

\* The memory a store writes to: elements values and GuardElements more
\* after them, all holding the same fill pattern before the call.
Buffer(fill) == [i \in 0 .. elements + GuardElements - 1 |-> fill]

\* The vectors stored to unsigned shorts and chars: the int4 operands and
\* the vectors loaded from the narrow arrays.
StoreShortInputs == Int4Inputs \cup {int4_load_ushort(a) : a \in ShortArrays}
StoreCharInputs == Int4Inputs \cup {int4_load_uchar(a) : a \in CharArrays}

\* A store of the vector a to the memory before, leaving the memory after.
StoreCall(name, a, before, after) ==
    /\ op' = name
    /\ x' = a
    /\ dst0' = before
    /\ dst' = after
    /\ UNCHANGED <<y, n, bools, mem, res, sres, bres, idx, arg, reads, mat0, mat, tmat, nmat>>
    /\ Frame

StoreUShort ==
    /\ op = ""
    /\ \E a \in StoreShortInputs, fill \in {NatBits(0, ShortBits), NatBits(42405, ShortBits)} :
        StoreCall("store_ushort", a, Buffer(fill), int4_store_ushort(a, Buffer(fill)))
StoreUChar ==
    /\ op = ""
    /\ \E a \in StoreCharInputs, fill \in {NatBits(0, CharBits), NatBits(165, CharBits)} :
        StoreCall("store_uchar", a, Buffer(fill), int4_store_uchar(a, Buffer(fill)))

\* The vectors shuffled, inserted into and blended: int4 operands, the
\* bit patterns of the floats (1, 2, 3, 4), (-1, 2.5, -0.5, 1e-45) and
\* (-0, NaN, +Inf, -Inf), and masks whose first and last lanes vary.
MoveIntInputs == {a \in Int4Inputs : a[0] \in {Int32(1), Int32(-1), Int32(65535)}}
MoveFloatInputs ==
    { V4(Int32(1065353216), Int32(1073741824), Int32(1077936128), Int32(1082130432)),
      V4(Int32(-1082130432), Int32(1075838976), Int32(-1090519040), Int32(1)),
      V4(Int32(-2147483647 - 1), Int32(2143289345), Int32(2139095040), Int32(-8388608)) }
MoveMaskInputs == {a \in MaskInputs : a[1] = IntZero /\ a[2] = IntNegOne}

\* A call with the template arguments i of the vector a, returning r.
IndexCall(name, i, a, r) ==
    /\ op' = name
    /\ idx' = i
    /\ x' = a
    /\ res' = r
    /\ UNCHANGED <<y, n, bools, mem, sres, bres, arg, dst0, dst, reads, mat0, mat, tmat, nmat>>
    /\ Frame

\* shuffle<i0,i1,i2,i3>(a) and shuffle<i>(a) on mask4, int4 and float4
ShuffleMask ==
    /\ op = ""
    /\ \E a \in MoveMaskInputs :
        \/ \E i0 \in Lanes, i1 \in Lanes, i2 \in Lanes, i3 \in Lanes :
            IndexCall("shuffle_mask", <<i0, i1, i2, i3>>, a, mask4_shuffle(i0, i1, i2, i3, a))
        \/ \E i \in Lanes : IndexCall("shuffle_mask", <<i>>, a, mask4_shuffle1(i, a))
ShuffleInt ==
    /\ op = ""
    /\ \E a \in MoveIntInputs :
        \/ \E i0 \in Lanes, i1 \in Lanes, i2 \in Lanes, i3 \in Lanes :
            IndexCall("shuffle_int", <<i0, i1, i2, i3>>, a, int4_shuffle(i0, i1, i2, i3, a))
        \/ \E i \in Lanes : IndexCall("shuffle_int", <<i>>, a, int4_shuffle1(i, a))
ShuffleFloat ==
    /\ op = ""
    /\ \E a \in MoveFloatInputs :
        \/ \E i0 \in Lanes, i1 \in Lanes, i2 \in Lanes, i3 \in Lanes :
            IndexCall("shuffle_float", <<i0, i1, i2, i3>>, a, float4_shuffle(i0, i1, i2, i3, a))
        \/ \E i \in Lanes : IndexCall("shuffle_float", <<i>>, a, float4_shuffle1(i, a))

\* The ints and the floats (as bit patterns: 0, -1, NaN and 7) inserted.
InsertIntInputs == {Int32(0), Int32(-1), Int32(305419896)}
InsertFloatInputs == {Int32(0), Int32(-1082130432), Int32(2143289345), Int32(1088421888)}

\* insert<i>(a, v): the vector a, the lane i, the scalar v and the result r.
InsertCall(name, i, a, v, r) ==
    /\ op' = name
    /\ idx' = <<i>>
    /\ x' = a
    /\ arg' = v
    /\ res' = r
    /\ UNCHANGED <<y, n, bools, mem, sres, bres, dst0, dst, reads, mat0, mat, tmat, nmat>>
    /\ Frame

\* extract<i>(a): the vector a, the lane i and the scalar r returned.
ExtractCall(name, i, a, r) ==
    /\ op' = name
    /\ idx' = <<i>>
    /\ x' = a
    /\ sres' = r
    /\ UNCHANGED <<y, n, bools, mem, res, bres, arg, dst0, dst, reads, mat0, mat, tmat, nmat>>
    /\ Frame

InsertInt ==
    /\ op = ""
    /\ \E i \in Lanes, a \in MoveIntInputs, v \in InsertIntInputs :
        InsertCall("insert_int", i, a, v, int4_insert(i, a, v))
ExtractInt ==
    /\ op = ""
    /\ \E i \in Lanes, a \in MoveIntInputs :
        ExtractCall("extract_int", i, a, int4_extract(i, a))
InsertFloat ==
    /\ op = ""
    /\ \E i \in Lanes, a \in MoveFloatInputs, v \in InsertFloatInputs :
        InsertCall("insert_float", i, a, v, float4_insert(i, a, v))
ExtractFloat ==
    /\ op = ""
    /\ \E i \in Lanes, a \in MoveFloatInputs :
        ExtractCall("extract_float", i, a, float4_extract(i, a))

\* blend (a, b, mask) or select (mask, a, b): the operands and the result r.
\* The mask operand is held in m.
BlendCall(name, a, b, mask, r) ==
    /\ op' = name
    /\ x' = a
    /\ y' = b
    /\ m' = mask
    /\ res' = r
    /\ UNCHANGED <<n, bools, mem, sres, bres, idx, arg, dst0, dst, reads, mat0, mat, tmat, nmat>>
    /\ BuildFrame

BlendInt ==
    /\ op = ""
    /\ \E a \in MoveIntInputs, b \in MoveIntInputs, mask \in MaskInputs :
        BlendCall("blend_int", a, b, mask, int4_blend(a, b, mask))
SelectInt ==
    /\ op = ""
    /\ \E a \in MoveIntInputs, b \in MoveIntInputs, mask \in MaskInputs :
        BlendCall("select_int", a, b, mask, int4_select(mask, a, b))
BlendFloat ==
    /\ op = ""
    /\ \E a \in MoveFloatInputs, b \in MoveFloatInputs, mask \in MaskInputs :
        BlendCall("blend_float", a, b, mask, float4_blend(a, b, mask))
SelectFloat ==
    /\ op = ""
    /\ \E a \in MoveFloatInputs, b \in MoveFloatInputs, mask \in MaskInputs :
        BlendCall("select_float", a, b, mask, float4_select(mask, a, b))

\* The dividends and the divisors of safe_div: numbers whose quotient is
\* exact and numbers whose quotient is rounded, zeros of both signs,
\* infinities and NaNs.
DividendInputs ==
    { V4(Float(0, 1, 0), Float(1, 3, 1), FloatZero, Float(0, 5, 0)),
      V4(FloatNegZero, FloatInf, FloatNaN, Float(1, 1, 0)),
      Splat(Float(0, 7, 0)),
      Splat(FloatZero) }
DivisorInputs ==
    { Splat(FloatZero),
      Splat(FloatNegZero),
      V4(FloatZero, FloatNegZero, Float(0, 1, 1), Float(0, 3, 0)),
      V4(FloatNegZero, Float(0, 3, 0), Float(1, 1, -1), FloatInf),
      V4(FloatNaN, Float(0, 1, 0), FloatZero, Float(1, 3, 0)),
      V4(Float(0, 1, 0), Float(0, 1, 1), Float(0, 1, 2), Float(1, 1, 3)) }

SafeDiv ==
    /\ op = ""
    /\ \E a \in DividendInputs, b \in DivisorInputs :
        VecCall("safe_div", a, b, safe_div(a, b))

\* The floats given to floori, round and rint: halves and quarters of both
\* signs, zeros of both signs, integers of both signs, a number next to
\* 2^20 and one below the smallest normal number.
RoundingInputs ==
    { V4(Float(0, 1, -1), Float(0, 3, -1), Float(0, 5, -1), Float(0, 7, -1)),
      V4(Float(1, 1, -1), Float(1, 3, -1), Float(1, 5, -1), Float(1, 7, -1)),
      V4(FloatZero, FloatNegZero, Float(0, 3, 0), Float(0, 29, -2)),
      V4(Float(1, 1, 1), Float(1, 1, 0), Float(1, 7, 0), Float(1, 1, -2)),
      V4(Float(0, 4194307, -2), Float(1, 4194307, -2), Float(0, 1, -140), Float(1, 16777215, 0)),
      V4(Float(0, 3, -2), Float(1, 3, -2), Float(0, 1, 30), Float(1, 1, -140)) }

\* A call that takes the vector a and returns the vector r.
UnaryCall(name, a, r) ==
    /\ op' = name
    /\ x' = a
    /\ res' = r
    /\ UNCHANGED <<y, n, bools, mem, sres, bres, idx, arg, dst0, dst, reads, mat0, mat, tmat, nmat>>
    /\ Frame

Floori ==
    /\ op = ""
    /\ \E a \in RoundingInputs : UnaryCall("floori", a, floori(a))

Round ==
    /\ op = ""
    /\ \E a \in RoundingInputs : UnaryCall("round", a, float4_round(a))
Rint ==
    /\ op = ""
    /\ \E a \in RoundingInputs : UnaryCall("rint", a, rint(a))

\* The memory of floats a float3 is loaded from and stored to, the counts
\* of elements, and the float3 objects: their fourth lane is whatever the
\* operation that made them left there.
FloatArrays ==
    { [i \in 0 .. elements + GuardElements - 1 |-> Float(0, 2 * i + 1, -1)],
      [i \in 0 .. elements + GuardElements - 1 |-> IF i % 2 = 0 THEN FloatNaN ELSE Float(1, 1, i)] }
Counts == 0 .. elements
Float3Inputs == MoveFloatInputs \cup {Splat(FloatZero)}

\* A load of count floats from values into an object holding a, which
\* holds r afterwards, having read the elements touched.
FloatLoadCall(name, a, values, count, r, touched) ==
    /\ op' = name
    /\ x' = a
    /\ dst0' = values
    /\ dst' = values
    /\ n' = count
    /\ res' = r
    /\ reads' = touched
    /\ UNCHANGED <<y, bools, mem, sres, bres, idx, arg, mat0, mat, tmat, nmat>>
    /\ Frame

\* A store of count floats of a to the memory before, leaving after.
FloatStoreCall(name, a, before, count, after) ==
    /\ op' = name
    /\ x' = a
    /\ dst0' = before
    /\ dst' = after
    /\ n' = count
    /\ UNCHANGED <<y, bools, mem, res, sres, bres, idx, arg, reads, mat0, mat, tmat, nmat>>
    /\ Frame

Float3Load ==
    /\ op = ""
    /\ \E a \in Float3Inputs, values \in FloatArrays :
        FloatLoadCall("float3_load", a, values, 3, float3_load(a, values), float3_load_reads)
Float3Store ==
    /\ op = ""
    /\ \E a \in Float3Inputs, values \in FloatArrays :
        FloatStoreCall("float3_store", a, values, 3, float3_store(a, values))
Float3StoreN ==
    /\ op = ""
    /\ \E a \in Float3Inputs, values \in FloatArrays, count \in Counts :
        FloatStoreCall("float3_store_n", a, values, count, float3_store_n(a, values, count))

\* The float3 objects normalized: zero vectors of either sign of zero, unit
\* axis vectors, and others whose length is a float.  The fourth lane is 0
\* where the object was built from three floats, and on the SSE builds
\* whatever the float4 it was converted from held.
Float3Triples ==
    { <<FloatZero, FloatZero, FloatZero>>,
      <<FloatNegZero, FloatZero, FloatNegZero>>,
      <<Float(0, 1, 0), FloatZero, FloatZero>>,
      <<FloatZero, Float(0, 1, 0), FloatZero>>,
      <<FloatNegZero, FloatZero, Float(1, 1, 0)>>,
      <<Float(0, 3, 0), Float(0, 1, 2), FloatZero>>,
      <<Float(0, 1, 1), Float(1, 1, 1), Float(0, 1, 0)>>,
      <<FloatZero, Float(1, 1, 1), FloatZero>> }
FourthLanes ==
    IF OIIO_SIMD_SSE_defined THEN {FloatZero, Float(0, 5, 0), FloatNaN} ELSE {FloatZero}
NormalizeInputs == {V4(t[1], t[2], t[3], w) : t \in Float3Triples, w \in FourthLanes}

Normalized ==
    /\ op = ""
    /\ \E a \in NormalizeInputs : UnaryCall("normalized", a, normalized(a))
NormalizedFast ==
    /\ op = ""
    /\ \E a \in NormalizeInputs, low \in BOOLEAN :
        UnaryCall("normalized_fast", a, normalized_fast(a, low))

\* The matrices transposed: one with sixteen different numbers, one with
\* zeros of both signs, NaNs, infinities and a denormal off the diagonal,
\* and a symmetric one.
MatrixInputs ==
    { [i \in Rows |-> [j \in Lanes |-> Float(0, 2 * (4 * i + j) + 1, -1)]],
      Matrix(V4(Float(0, 1, 0), FloatNegZero, FloatNaN, FloatInf),
             V4(FloatZero, Float(1, 1, 0), Int32(1), Int32(2143289345)),
             V4(Float(1, 3, 0), Float(0, 5, -2), FloatZero, Int32(-8388608)),
             V4(Float(0, 7, 0), FloatNegZero, Float(0, 9, 0), Float(0, 1, 0))),
      [i \in Rows |-> [j \in Lanes |-> Float(0, 2 * (i + j) + 1, 0)]] }

\* A call on the matrix M, left as after, that returns the matrix r.
MatrixCall(name, M, after, r) ==
    /\ op' = name
    /\ mat0' = M
    /\ mat' = after
    /\ tmat' = r
    /\ UNCHANGED <<x, y, n, bools, mem, res, sres, bres, idx, arg, dst0, dst, reads, nmat>>
    /\ Frame

\* M.transposed (), a const member: M is read and T is returned.
Transposed ==
    /\ op = ""
    /\ \E M \in MatrixInputs : MatrixCall("transposed", M, M, matrix44_transposed(M))

\* transpose (a, b, c, d, r0, r1, r2, r3) on the rows of M.
Transpose ==
    /\ op = ""
    /\ \E M \in MatrixInputs :
        MatrixCall("transpose", M, M, transpose(M[0], M[1], M[2], M[3]))

\* The matrices compared: those transposed, the zero matrix, the zero
\* matrix with one -0 and the zero matrix with one 1.
ZeroMatrix == [i \in Rows |-> Splat(FloatZero)]
MatrixOperands ==
    MatrixInputs
    \cup { ZeroMatrix,
           [ZeroMatrix EXCEPT ![2][1] = FloatNegZero],
           [ZeroMatrix EXCEPT ![3][3] = Float(0, 1, 0)] }

\* A comparison of the matrix44 M with the matrix N that returned r.
CompareCall(name, M, N, r) ==
    /\ op' = name
    /\ mat0' = M
    /\ mat' = M
    /\ nmat' = N
    /\ bres' = r
    /\ UNCHANGED <<x, y, n, bools, mem, res, sres, idx, arg, dst0, dst, reads, tmat>>
    /\ Frame

\* m == n and m != n for matrix44 m and n, and for an Imath::M44f n.
MatrixEq ==
    /\ op = ""
    /\ \E M \in MatrixOperands, N \in MatrixOperands :
        CompareCall("matrix_eq", M, N, matrix44_eq(M, N))
MatrixNe ==
    /\ op = ""
    /\ \E M \in MatrixOperands, N \in MatrixOperands :
        CompareCall("matrix_ne", M, N, matrix44_ne(M, N))
MatrixEqImath ==
    /\ op = ""
    /\ \E M \in MatrixOperands, N \in MatrixOperands :
        CompareCall("matrix_eq_imath", M, N, matrix44_eq_Imath(M, N))
MatrixNeImath ==
    /\ op = ""
    /\ \E M \in MatrixOperands, N \in MatrixOperands :
        CompareCall("matrix_ne_imath", M, N, matrix44_ne_Imath(M, N))

\* The matrices points are transformed by: the identity, a translation and
\* a matrix that halves.  The identity transforms every point below, the
\* others those with small lanes.
One == Float(0, 1, 0)
IdentityMatrix ==
    Matrix(V4(One, FloatZero, FloatZero, FloatZero), V4(FloatZero, One, FloatZero, FloatZero),
           V4(FloatZero, FloatZero, One, FloatZero), V4(FloatZero, FloatZero, FloatZero, One))
TranslationMatrix ==
    Matrix(IdentityMatrix[0], IdentityMatrix[1], IdentityMatrix[2],
           V4(Float(0, 1, 2), Float(1, 1, 1), Float(0, 1, 3), One))
HalvingMatrix ==
    Matrix(IdentityMatrix[0], IdentityMatrix[1], IdentityMatrix[2],
           V4(FloatZero, FloatZero, FloatZero, Float(0, 1, 1)))
SmallPoints ==
    { V4(Float(0, 3, -1), Float(1, 1, 1), Float(0, 15, -2), FloatZero),
      V4(FloatZero, One, Float(1, 7, 0), FloatZero),
      V4(Float(0, 5, 0), Float(0, 5, -3), Float(1, 1, -1), FloatZero) }
Points ==
    SmallPoints
    \cup { V4(FloatNegZero, FloatZero, Float(0, 5, 0), FloatZero),
           V4(Float(0, 16777215, 100), Float(1, 1, -149), Float(0, 8388609, -23), FloatZero),
           V4(FloatInf, One, Float(0, 1, 1), FloatZero),
           V4(One, InfBits(1), Float(0, 1, 1), FloatZero),
           V4(One, Float(0, 1, 1), FloatNaN, FloatZero),
           V4(InfBits(1), FloatInf, FloatInf, FloatZero) }
TransformInputs ==
    {<<IdentityMatrix, V>> : V \in Points}
    \cup {<<M, V>> : M \in {TranslationMatrix, HalvingMatrix}, V \in SmallPoints}

\* A call on the matrix44 M with the float3 V that returned the float3 r.
TransformCall(name, M, V, r) ==
    /\ op' = name
    /\ mat0' = M
    /\ mat' = M
    /\ x' = V
    /\ res' = r
    /\ UNCHANGED <<y, n, bools, mem, sres, bres, idx, arg, dst0, dst, reads, tmat, nmat>>
    /\ Frame

\* M.transformp (V)
Transformp ==
    /\ op = ""
    /\ \E t \in TransformInputs :
        TransformCall("transformp", t[1], t[2], matrix44_transformp(t[1], t[2]))

\* The matrices inverted.  Those of ExactMatrices have small integers or
\* powers of two for elements and a power of two for determinant, so that
\* their inverses consist of floats: a translation, a scaling, a shear with
\* a translation, and the matrix that halves.  The SSE builds also invert a
\* matrix of determinant 3, a rotation by the angle of the 3-4-5 triangle
\* with a translation, whose elements 0.6 and 0.8 are no floats, and the
\* zero matrix, which has no inverse.
ExactMatrices ==
    { TranslationMatrix,
      Matrix(V4(Float(0, 1, 1), FloatZero, FloatZero, FloatZero),
             V4(FloatZero, Float(0, 1, 2), FloatZero, FloatZero),
             V4(FloatZero, FloatZero, Float(0, 1, -1), FloatZero),
             V4(FloatZero, FloatZero, FloatZero, One)),
      Matrix(V4(One, Float(0, 1, 1), FloatZero, FloatZero),
             V4(Float(0, 3, 0), Float(0, 7, 0), Float(1, 1, 0), FloatZero),
             V4(FloatZero, One, One, FloatZero),
             V4(Float(0, 5, 0), Float(1, 3, 0), Float(0, 1, 1), One)),
      HalvingMatrix }
RoundedMatrices ==
    { Matrix(V4(One, One, FloatZero, FloatZero),
             V4(Float(1, 1, 0), One, FloatZero, One),
             V4(FloatZero, Float(0, 1, 1), Float(1, 1, 0), FloatZero),
             V4(One, FloatZero, Float(0, 3, 0), One)),
      Matrix(V4(Halves(39322, 16153), Halves(52429, 16204), FloatZero, FloatZero),
             V4(Halves(52429, 48972), Halves(39322, 16153), FloatZero, FloatZero),
             V4(FloatZero, FloatZero, One, FloatZero),
             V4(Float(0, 3, 0), Float(1, 1, 1), Float(0, 5, -1), One)) }
InverseInputs ==
    IF OIIO_SIMD_SSE_defined THEN ExactMatrices \cup RoundedMatrices \cup {ZeroMatrix}
    ELSE ExactMatrices

\* M.inverse ()
Inverse ==
    /\ op = ""
    /\ \E M \in InverseInputs, err \in RcpOutcomes :
        MatrixCall("inverse", M, M, matrix44_inverse(M, err))

\* M.inverse ().inverse (): the inverse of the matrix the call before
\* returned.
InverseOfInverse ==
    /\ op = "inverse"
    /\ \E err \in RcpOutcomes :
        /\ op' = "inverse_inverse"
        /\ nmat' = tmat
        /\ tmat' = matrix44_inverse(tmat, err)
        /\ UNCHANGED <<x, y, n, bools, mem, res, sres, bres, idx, arg, dst0, dst, reads, mat0, mat>>
        /\ Frame

\* What std::abs (INT_MIN) may return: the wrapped negation INT_MIN, or
\* another int.
AbsOverflowOutcomes == {Int32(-2147483647 - 1), Int32(2147483647), Int32(0)}

\* abs (a)
Abs ==
    /\ op = ""
    /\ \E a \in Int4Inputs, overflowed \in AbsOverflowOutcomes :
        UnaryCall("abs", a, int4_abs(a, overflowed))

Next ==
    \/ MaskNot \/ MaskAnd \/ MaskOr \/ MaskXor \/ MaskEq \/ MaskNe
    \/ CallAll \/ CallAny \/ CallNone
    \/ IntAdd \/ IntSub \/ IntMul
    \/ ShiftLeft \/ ShiftRight \/ ShiftRightLogical \/ Rotate
    \/ VReduceAdd \/ ReduceAdd
    \/ LoadUShort \/ LoadShort \/ LoadUChar \/ LoadChar
    \/ StoreUShort \/ StoreUChar
    \/ ShuffleMask \/ ShuffleInt \/ ShuffleFloat
    \/ InsertInt \/ ExtractInt \/ InsertFloat \/ ExtractFloat
    \/ BlendInt \/ SelectInt \/ BlendFloat \/ SelectFloat
    \/ SafeDiv
    \/ Floori
    \/ Round \/ Rint
    \/ Float3Load \/ Float3Store \/ Float3StoreN
    \/ Normalized \/ NormalizedFast
    \/ Transposed \/ Transpose
    \/ MatrixEq \/ MatrixNe \/ MatrixEqImath \/ MatrixNeImath
    \/ Transformp
    \/ Inverse \/ InverseOfInverse
    \/ Abs

Spec == Init /\ [][Next]_vars

-----------------------------------------------------------------------------
(* Properties of the calls of Spec *)

\* C2: the result of !a, a & b, a | b and a ^ b on masks has every lane
\* all bits zero or all bits one, whatever the operands' lanes hold, on
\* the SSE and on the scalar backend.
C2_LogicalCanonical ==
    op \in {"not", "and", "or", "xor"} => Canonical(res)

\* The masks of C2's and C4's operands hold what the mask operations of
\* C1 leave in them: with both operands canonical the results are
\* canonical, == compares lane by lane and != is its complement.
CanonicalOperands ==
    (op \in {"not", "and", "or", "xor", "eq", "ne"} /\ Canonical(x) /\ Canonical(y))
        => /\ Canonical(res)
           /\ op = "eq" => \A l \in Lanes : mask4_get(res, l) = (x[l] = y[l])
           /\ op = "ne" => \A l \in Lanes : mask4_get(res, l) = (x[l] # y[l])

\* C3: for the mask built from the bools b0..b3, all is true exactly when
\* the four are true, any exactly when one of them is true, and none
\* exactly when any is false, on every backend (so the movemask and the
\* scalar reductions agree); all(mask4(true)) and none(mask4(false)) hold.
C3_Reductions ==
    /\ op = "all" => bres = (\A l \in Lanes : bools[l])
    /\ op = "any" => bres = (\E l \in Lanes : bools[l])
    /\ op = "none" => bres = ~any(x) /\ bres = (\A l \in Lanes : ~bools[l])

C3_Witness ==
    /\ op = "all"
    /\ simd_sse = 2
    /\ bools = [l \in Lanes |-> l # 2]
    /\ bres = FALSE

\* C4: lane i of a == b on masks reads true exactly when lane i of a
\* equals lane i of b, lane i of a != b exactly when they differ, and
\* a != b is the lane-wise complement of a == b.
C4_EqualityLanes ==
    /\ op = "eq" => \A l \in Lanes : mask4_get(res, l) = (x[l] = y[l])
    /\ op = "ne" =>
        /\ \A l \in Lanes : mask4_get(res, l) = (x[l] # y[l])
        /\ res = [l \in Lanes |-> Bit \ mask4_eq(x, y)[l]]

\* The lane values small enough that sums, differences and products of
\* two of them are computed without wrapping.
SmallLane(a) == a \in {Int32(v) : v \in -1 .. 4}

\* C5: each lane of a + b, a - b and a * b on int4 is the scalar result
\* on that lane's operands modulo 2^32, on every backend (the SSE4.1
\* multiply and the two-multiply emulation included); it is the integer
\* result when that does not wrap, and (1,2,3,4) + (4,3,2,1) is (5,5,5,5).
C5_LaneArithmetic ==
    /\ op = "add" => \A l \in Lanes :
        /\ res[l] = c_add(x[l], y[l])
        /\ (SmallLane(x[l]) /\ SmallLane(y[l])) => IntVal(res[l]) = IntVal(x[l]) + IntVal(y[l])
    /\ op = "sub" => \A l \in Lanes :
        /\ res[l] = c_sub(x[l], y[l])
        /\ (SmallLane(x[l]) /\ SmallLane(y[l])) => IntVal(res[l]) = IntVal(x[l]) - IntVal(y[l])
    /\ op = "mul" => \A l \in Lanes :
        /\ res[l] = c_mul(x[l], y[l])
        /\ (SmallLane(x[l]) /\ SmallLane(y[l])) => IntVal(res[l]) = IntVal(x[l]) * IntVal(y[l])
    /\ (op = "add" /\ x = V4(Int32(1), Int32(2), Int32(3), Int32(4))
                   /\ y = V4(Int32(4), Int32(3), Int32(2), Int32(1)))
        => res = Splat(Int32(5))

C5_Witness ==
    /\ op = "mul"
    /\ simd_sse = 2
    /\ x[0] = Int32(2147483647)
    /\ y[0] = Int32(2147483647)
    /\ res[0] = Int32(1)

\* C6: for a count n in 0 .. 31, srl moves each lane's bits n places down
\* and fills with zeros, operator>> moves them n places down and fills
\* with the sign bit (the floor of the lane's value divided by 2^n),
\* operator<< moves them n places up and clears the low n bits, and the
\* two right shifts agree on a lane whose sign bit is clear.
C6_Shifts ==
    n < WordBits => \A l \in Lanes :
        /\ op = "srl" => res[l] = {i \in Bit : i + n \in x[l]}
        /\ op = "shr" =>
            /\ res[l] = {i \in Bit : IF i + n < WordBits THEN i + n \in x[l]
                                     ELSE SignBit \in x[l]}
            /\ n < SignBit => IntVal(res[l]) = IntVal(x[l]) \div Pow2(n)
            /\ SignBit \notin x[l] => res[l] = {i \in Bit : i + n \in x[l]}
        /\ op = "shl" => res[l] = {i \in Bit : i >= n /\ i - n \in x[l]}

C6_Witness ==
    /\ op = "shr"
    /\ n = 31
    /\ x[0] = Int32(-65536)
    /\ res[0] = Ones32

C8_Rotation ==
    (op = "rotl32" /\ n < WordBits) =>
        /\ \A l \in Lanes : res[l] = {(i + n) % WordBits : i \in x[l]}
        /\ n = 0 => res = x
        /\ \A count_masked \in BOOLEAN : rotl32(res, WordBits - n, count_masked) = x

C8_Witness ==
    /\ op = "rotl32"
    /\ n = 4
    /\ x[0] = Int32(305419896)
    /\ res[0] = Int32(591751041)

\* C9: every lane of vreduce_add(v), and reduce_add(v), is the sum of the
\* four lanes of v modulo 2^32, on the SSSE3 horizontal-add path, the SSE2
\* shuffle-and-add path and the scalar path; the lanes 1, 2, 3, 4 sum to 10.
C9_ReduceAdd ==
    LET sum == c_add(c_add(x[0], x[1]), c_add(x[2], x[3])) IN
    /\ op = "vreduce_add" => res = Splat(sum)
    /\ op = "reduce_add" => sres = sum
    /\ x = V4(Int32(1), Int32(2), Int32(3), Int32(4)) =>
        /\ op = "vreduce_add" => \A l \in Lanes : IntVal(res[l]) = 10
        /\ op = "reduce_add" => IntVal(sres) = 10

C9_Witness ==
    /\ op = "reduce_add"
    /\ simd_sse = 2
    /\ x = V4(Int32(2147483647), Int32(-2147483647 - 1), Int32(65535), Int32(-65536))
    /\ sres = Int32(-2)

\* C10: int4::load from unsigned short and unsigned char zero-extends
\* element i into lane i, and from short and char sign-extends it, on the
\* SSE4.1 and on the element-by-element path alike.
C10_NarrowLoads ==
    /\ op = "load_ushort" => \A l \in Lanes : res[l] = c_int_of_unsigned(mem[l], ShortBits)
    /\ op = "load_short" => \A l \in Lanes : res[l] = c_int_of_signed(mem[l], ShortBits)
    /\ op = "load_uchar" => \A l \in Lanes : res[l] = c_int_of_unsigned(mem[l], CharBits)
    /\ op = "load_char" => \A l \in Lanes : res[l] = c_int_of_signed(mem[l], CharBits)

\* The loads of C10 other than the one from plain char convert as stated
\* on every build, and the load from plain char does where char is signed.
NarrowLoadsSignedChar ==
    (op # "load_char" \/ char_signed) => C10_NarrowLoads

\* The load from plain char gives the same lanes on the SSE4.1 path as
\* the conversion of each element to int.
CharLoadAsConverted ==
    op = "load_char" => \A l \in Lanes : res[l] = c_int_of_char(mem[l])

\* C11: int4::store to unsigned shorts (unsigned chars) writes the low 16
\* (8) bits of lane i to values[i] for i = 0, 1, 2, 3 and nothing after
\* them, on the SSE and the scalar path alike; storing a vector loaded
\* from four unsigned 16- or 8-bit values writes those values back.
C11_NarrowStores ==
    /\ op = "store_ushort" =>
        /\ \A i \in DOMAIN dst :
            dst[i] = IF i < elements THEN {b \in x[i] : b < ShortBits} ELSE dst0[i]
        /\ \A a \in ShortArrays :
            x = int4_load_ushort(a) => \A l \in Lanes : dst[l] = a[l]
    /\ op = "store_uchar" =>
        /\ \A i \in DOMAIN dst :
            dst[i] = IF i < elements THEN {b \in x[i] : b < CharBits} ELSE dst0[i]
        /\ \A a \in CharArrays :
            x = int4_load_uchar(a) => \A l \in Lanes : dst[l] = a[l]

C11_Witness ==
    /\ op = "store_uchar"
    /\ simd_sse = 2
    /\ x[1] = Int32(-65536)
    /\ x[2] = Int32(305419896)
    /\ dst[2] = NatBits(120, CharBits)
    /\ dst[elements] = NatBits(165, CharBits)

\* The lane index that the template arguments of a shuffle give for lane
\* k of the result: i_k, or i for the single-index form.
ShuffleIndex(k) == IF Len(idx) = 1 THEN idx[1] ELSE idx[k + 1]

\* C12: for each of the 256 index combinations, lane k of
\* shuffle<i0,i1,i2,i3>(v) is lane i_k of v (for a mask4, as operator[]
\* reads the lanes, and bit for bit when v is canonical), the SSE3
\* special cases <0,0,2,2>, <1,1,3,3> and <0,1,0,1> included, and every
\* lane of shuffle<i>(v) is lane i of v.
C12_Shuffle ==
    /\ op = "shuffle_mask" => \A k \in Lanes :
        /\ mask4_get(res, k) = mask4_get(x, ShuffleIndex(k))
        /\ Canonical(x) => res[k] = x[ShuffleIndex(k)]
    /\ op \in {"shuffle_int", "shuffle_float"} => \A k \in Lanes :
        res[k] = x[ShuffleIndex(k)]

C12_Witness ==
    /\ op = "shuffle_float"
    /\ simd_sse = 3
    /\ idx = <<1, 1, 3, 3>>
    /\ x[1] = Int32(2143289345)
    /\ res = V4(Int32(2143289345), Int32(2143289345), Int32(-8388608), Int32(-8388608))

\* C13: insert<i>(a, val) on int4 and float4 returns a vector whose lane i
\* is val and whose other lanes are those of a, extract<i>(a) returns lane
\* i of a, so extract<i> of the result is val and extract<j> of it is
\* extract<j>(a) for j # i, the SSE special case insert<0> included.
C13_InsertExtract ==
    /\ op = "insert_int" =>
        /\ res = [l \in Lanes |-> IF l = idx[1] THEN arg ELSE x[l]]
        /\ \A j \in Lanes : int4_extract(j, res) =
                IF j = idx[1] THEN arg ELSE int4_extract(j, x)
    /\ op = "insert_float" =>
        /\ res = [l \in Lanes |-> IF l = idx[1] THEN arg ELSE x[l]]
        /\ \A j \in Lanes : float4_extract(j, res) =
                IF j = idx[1] THEN arg ELSE float4_extract(j, x)
    /\ op \in {"extract_int", "extract_float"} => sres = x[idx[1]]

C13_Witness ==
    /\ op = "insert_float"
    /\ simd_sse = 4
    /\ idx = <<2>>
    /\ arg = Int32(2143289345)
    /\ x = V4(Int32(1065353216), Int32(1073741824), Int32(1077936128), Int32(1082130432))
    /\ res = V4(Int32(1065353216), Int32(1073741824), Int32(2143289345), Int32(1082130432))

\* C14: with a canonical mask, lane i of blend(a, b, mask) on int4 and
\* float4 is b[i] where mask[i] is true and a[i] elsewhere, and
\* select(mask, a, b) is blend(b, a, mask): a[i] where mask[i] is true and
\* b[i] elsewhere, on the SSE4.1, the SSE2 and the scalar path.
C14_BlendSelect ==
    Canonical(m) =>
        /\ op \in {"blend_int", "blend_float"} => \A l \in Lanes :
            res[l] = IF mask4_get(m, l) THEN y[l] ELSE x[l]
        /\ op \in {"select_int", "select_float"} => \A l \in Lanes :
            res[l] = IF mask4_get(m, l) THEN x[l] ELSE y[l]
        /\ op = "select_int" => res = int4_blend(y, x, m)
        /\ op = "select_float" => res = float4_blend(y, x, m)

C14_Witness ==
    /\ op = "select_int"
    /\ simd_sse = 2
    /\ m = V4(IntNegOne, IntZero, IntZero, IntNegOne)
    /\ x = V4(Int32(1), Int32(2), Int32(3), Int32(4))
    /\ y[1] = Int32(2147483647)
    /\ res = V4(Int32(1), Int32(2147483647), Int32(-2147483647 - 1), Int32(4))

-----------------------------------------------------------------------------
\* C15: safe_div(a, b) returns +0 in every lane whose divisor is a zero of
\* either sign (never an infinity or a NaN), the quotient a[i] / b[i] in
\* every other lane, and safe_div(x, Zero) is Zero, on every build.
C15_SafeDiv ==
    op = "safe_div" =>
        /\ \A i \in Lanes :
            IF IsFloatZero(y[i]) THEN res[i] = FloatZero
            ELSE res[i] = f_div(x[i], y[i])
        /\ (y = Splat(FloatZero) => res = Splat(FloatZero))

\* safe_div was called with a zero divisor under a dividend that is not a
\* zero, next to a lane with a rounded quotient.
C15_Witness ==
    /\ op = "safe_div"
    /\ \E i \in Lanes : y[i] = FloatNegZero /\ ~IsFloatZero(x[i]) /\ res[i] = FloatZero
    /\ \E i \in Lanes : y[i] = Float(0, 3, 0) /\ x[i] = Float(0, 7, 0)

-----------------------------------------------------------------------------
\* The largest integer not above the float w, as an int.
FloorOf(w) ==
    LET f == DecodeFloat(w)
        below == IntegerPart(f) + (IF Fraction(f) # 0 THEN 1 ELSE 0)
    IN IF f.kind # "num" THEN IntZero
       ELSE IF f.s = 1 THEN Int32(-below)
       ELSE Int32(IntegerPart(f))

\* C16: floori(a) is, in every lane, the floor of a[i] toward minus
\* infinity as an int (-0.5 gives -1, a negative integer gives itself), on
\* the SSE4.1, the SSE2/3 and the scalar path alike.
C16_Floori ==
    op = "floori" => \A i \in Lanes : res[i] = FloorOf(x[i])

\* A negative float with an integer value.
NegativeInteger(w) ==
    /\ DecodeFloat(w).kind = "num"
    /\ SignBit \in w
    /\ Fraction(DecodeFloat(w)) = 0

\* floori is the floor in every lane that is not a negative integer, and in
\* those too on the SSE4.1 and the scalar path; the SSE2/3 path returns one
\* less than a negative integer.
FlooriOffNegativeIntegers ==
    op = "floori" =>
        \A i \in Lanes :
            IF simd_sse \in {2, 3} /\ NegativeInteger(x[i])
            THEN res[i] = c_sub(FloorOf(x[i]), Int32(1))
            ELSE res[i] = FloorOf(x[i])

-----------------------------------------------------------------------------
\* C17: round(a) is, in every lane, a[i] rounded to the nearest integer and
\* away from zero when a[i] is exactly half way (0.5 gives 1, 2.5 gives 3,
\* -0.5 gives -1, -2.5 gives -3), rint(a) is that value as an int, and the
\* SSE4.1 and the scalar path return the same lanes.
C17_RoundHalfAway ==
    /\ op = "round" => \A i \in Lanes : res[i] = f_roundf(x[i])
    /\ op = "rint" => \A i \in Lanes : res[i] = c_int_of_float(f_roundf(x[i]))

\* A float exactly half way between two integers.
HalfWay(w) ==
    /\ DecodeFloat(w).kind = "num"
    /\ DecodeFloat(w).k = -1

\* round and rint are as C17 says in every lane that is not half way, and
\* in those too before SSE4.1 and on the scalar path; the SSE4.1 path
\* rounds a lane that is half way to the even integer.
RoundOffTies ==
    /\ op = "round" =>
        \A i \in Lanes :
            res[i] = IF simd_sse >= 4 /\ HalfWay(x[i])
                     THEN f_round_nearest_even(x[i]) ELSE f_roundf(x[i])
    /\ op = "rint" =>
        \A i \in Lanes :
            res[i] = c_int_of_float(IF simd_sse >= 4 /\ HalfWay(x[i])
                                    THEN f_round_nearest_even(x[i]) ELSE f_roundf(x[i]))

-----------------------------------------------------------------------------
\* C18: float3::store (p) writes lanes 0, 1, 2 to p[0], p[1], p[2] and
\* leaves p[3] and everything after it as it was; float3::load (p) reads
\* p[0], p[1], p[2] only (and changes no memory); store (p, n) for n in
\* 0 .. 4 writes lane i to p[i] for i < n and nothing else; on every build.
C18_Float3Memory ==
    /\ op = "float3_store" =>
        \A i \in DOMAIN dst : dst[i] = IF i < 3 THEN x[i] ELSE dst0[i]
    /\ op = "float3_load" =>
        /\ reads = {0, 1, 2}
        /\ \A i \in 0 .. 2 : res[i] = dst0[i]
        /\ dst = dst0
    /\ op = "float3_store_n" =>
        \A i \in DOMAIN dst : dst[i] = IF i < n THEN x[i] ELSE dst0[i]

\* A float3 was stored over memory that held other values in p[0 .. 3].
C18_Witness ==
    /\ op = "float3_store"
    /\ \A i \in Lanes : dst0[i] # x[i]
    /\ \A i \in 0 .. 2 : dst[i] = x[i]
    /\ dst[3] = dst0[3]

-----------------------------------------------------------------------------
\* The three logical lanes of a float3.
Logical == 0 .. 2

\* A float3 with 1 or -1 in one logical lane and zeros in the other two.
UnitAxis(v) ==
    \E j \in Logical :
        /\ Magnitude(v[j]) = Magnitude(Float(0, 1, 0))
        /\ \A i \in Logical \ {j} : IsFloatZero(v[i])

\* C19: normalized() of a float3 whose three logical lanes are zero has
\* zeros (no NaN, no infinity) in its three logical lanes, +0 for the input
\* (0,0,0); normalized() of a unit axis vector has the lanes of its input;
\* normalized_fast() returns zeros for a zero input as well; on the SSE
\* builds and the scalar build alike.
C19_Normalized ==
    /\ op \in {"normalized", "normalized_fast"} =>
        /\ (\A i \in Logical : IsFloatZero(x[i])) => \A i \in Logical : IsFloatZero(res[i])
        /\ (\A i \in Logical : x[i] = FloatZero) => \A i \in Logical : res[i] = FloatZero
    /\ op = "normalized" /\ UnitAxis(x) => \A i \in Logical : res[i] = x[i]

\* On an SSE build normalized() was called on (0,0,0) with a NaN left in
\* the fourth lane.
C19_Witness ==
    /\ op = "normalized"
    /\ OIIO_SIMD_SSE_defined
    /\ \A i \in Logical : x[i] = FloatZero /\ res[i] = FloatZero
    /\ IsNaN(x[3])

-----------------------------------------------------------------------------
\* C20: M.transposed () is the matrix T with T[i][j] = M[j][i], bit for
\* bit, for all i, j in 0 .. 3; M is left as it was; transposing T gives M
\* back; and the unpack sequence of transpose (a, b, c, d, r0, r1, r2, r3)
\* on the SSE builds and its scalar fallback produce the same rows.
C20_Transposed ==
    /\ op = "transposed" =>
        /\ \A i \in Rows, j \in Lanes : tmat[i][j] = mat0[j][i]
        /\ mat = mat0
        /\ matrix44_transposed(tmat) = mat0
    /\ op = "transpose" =>
        \A i \in Rows, j \in Lanes : tmat[i][j] = mat0[j][i]

\* A matrix that is not symmetric and holds a NaN with a payload was
\* transposed.
C20_Witness ==
    /\ op = "transposed"
    /\ tmat # mat0
    /\ mat0[1][3] = Int32(2143289345)
    /\ tmat[3][1] = Int32(2143289345)

-----------------------------------------------------------------------------
\* The sixteen elements of two matrices are equal as floats.
ElementsEqual(a, b) == \A i \in Rows, j \in Lanes : f_eq(a[i][j], b[i][j])

\* C21: m == n is true iff the sixteen corresponding elements are equal,
\* m != n is true iff at least one element differs, and m != n is the
\* negation of m == n, for all matrix44 m and n on every build.
C21_MatrixEquality ==
    /\ op = "matrix_eq" => (bres <=> ElementsEqual(mat0, nmat))
    /\ op = "matrix_ne" =>
        /\ bres <=> ~ElementsEqual(mat0, nmat)
        /\ bres <=> ~matrix44_eq(mat0, nmat)

\* On the SSE builds the comparison is of the elements as floats, on the
\* scalar build of their bits, and != is the negation of == on both.
MatrixEqualityPerBuild ==
    /\ op = "matrix_eq" =>
        (bres <=> IF OIIO_SIMD_SSE_defined THEN ElementsEqual(mat0, nmat)
                  ELSE memcmp_equal(mat0, nmat))
    /\ op = "matrix_ne" => (bres <=> ~matrix44_eq(mat0, nmat))

\* C30: m == n for an Imath::M44f n returns the same bool as
\* m == matrix44(n), and m != n the same as m != matrix44(n), for all
\* element values, +0 against -0 and NaN included.
C30_EqualityOverloads ==
    /\ op = "matrix_eq_imath" => (bres <=> matrix44_eq(mat0, matrix44_from_Imath(nmat)))
    /\ op = "matrix_ne_imath" => (bres <=> matrix44_ne(mat0, matrix44_from_Imath(nmat)))

\* The two overloads agree on the scalar build, and on the SSE builds for
\* matrices without a NaN whose zeros have the same signs.
OverloadsAgreeOnPlainValues ==
    (/\ op \in {"matrix_eq_imath", "matrix_ne_imath"}
     /\ \/ ~OIIO_SIMD_SSE_defined
        \/ \A i \in Rows, j \in Lanes :
               /\ ~IsNaN(mat0[i][j])
               /\ ~IsNaN(nmat[i][j])
               /\ (IsFloatZero(mat0[i][j]) /\ IsFloatZero(nmat[i][j])
                      => mat0[i][j] = nmat[i][j]))
    => C30_EqualityOverloads

\* m == matrix44(n) is true and m == n false: zeros of opposite signs on an
\* SSE build.
C30_Witness ==
    /\ op = "matrix_eq_imath"
    /\ OIIO_SIMD_SSE_defined
    /\ ~bres
    /\ matrix44_eq(mat0, matrix44_from_Imath(nmat))
C21_Witness ==
    /\ op = "matrix_eq"
    /\ ~OIIO_SIMD_SSE_defined
    /\ ~bres
    /\ ElementsEqual(mat0, nmat)

-----------------------------------------------------------------------------
\* A lane a that is the lane b: equal as floats (-0 is +0), or both NaN.
SameLane(a, b) == f_eq(a, b) \/ (IsNaN(a) /\ IsNaN(b))
Finite(a) == DecodeFloat(a).kind \in {"zero", "num"}

\* C22 as the spec states it: with the identity matrix, transformp (V)
\* returns V in lanes 0..2 for any float3 V.
C22_IdentityAnyPoint ==
    op = "transformp" /\ mat0 = IdentityMatrix
        => \A i \in 0 .. 2 : SameLane(res[i], x[i])

\* C22: with the identity matrix, transformp (V) returns V in lanes 0..2
\* for every float3 V whose lanes are finite: the implicit w is 1, row 3
\* is added as the translation and the sum is divided by its own w lane.
C22_IdentityFinitePoint ==
    op = "transformp" /\ mat0 = IdentityMatrix /\ (\A i \in 0 .. 2 : Finite(x[i]))
        => /\ \A i \in 0 .. 2 : f_eq(res[i], x[i])
           /\ res[3] = FloatZero

\* The translation row is added and the sum divided by its w lane: the
\* translation moves a point by row 3, the halving matrix halves it.
TransformpMechanism ==
    /\ op = "transformp" /\ mat0 = TranslationMatrix
        => \A i \in 0 .. 2 : res[i] = f_add(x[i], mat0[3][i])
    /\ op = "transformp" /\ mat0 = HalvingMatrix
        => \A i \in 0 .. 2 : f_eq(res[i], f_mul(x[i], Float(0, 1, -1)))

\* The identity has transformed a point with a full mantissa, a denormal
\* and a -0.
C22_Witness ==
    /\ op = "transformp"
    /\ mat0 = IdentityMatrix
    /\ x = V4(Float(0, 16777215, 100), Float(1, 1, -149), Float(0, 8388609, -23), FloatZero)
    /\ res = x

-----------------------------------------------------------------------------
\* |a - b| <= tol on floats.
Within(a, b, tol) ==
    /\ ~IsNaN(f_sub(a, b))
    /\ ~f_lt(tol, f_sub(a, b) \ {SignBit})
MatrixWithin(A, B, tol) == \A i \in Rows, j \in Lanes : Within(A[i][j], B[i][j], tol)

\* 1e-4f
Tolerance == Halves(46871, 14545)

\* C23: for a matrix M of non-zero determinant, every element of
\* M.inverse ().inverse () is within 1e-4 of the element of M, on every
\* build and for every outcome of the approximate reciprocal; inverse ()
\* returns a matrix of sixteen floats for every M, the singular one
\* included.
C23_InverseRoundTrip ==
    /\ op = "inverse_inverse" /\ mat0 # ZeroMatrix => MatrixWithin(tmat, mat0, Tolerance)
    /\ op \in {"inverse", "inverse_inverse"}
        => tmat \in [Rows -> [Lanes -> SUBSET (0 .. WordBits - 1)]]

\* What inverse () returns is the inverse: for the translation, the
\* translation back, within the tolerance.
InverseOfTranslation ==
    op = "inverse" /\ mat0 = TranslationMatrix
        => MatrixWithin(tmat,
                        Matrix(IdentityMatrix[0], IdentityMatrix[1], IdentityMatrix[2],
                               V4(Float(1, 1, 2), Float(0, 1, 1), Float(1, 1, 3), One)),
                        Tolerance)

\* On the scalar build, and on the SSE builds when _mm_rcp_ss is exact,
\* the round trip of a matrix whose inverse consists of floats is exact.
ExactRoundTrip ==
    op = "inverse_inverse" /\ mat0 \in ExactMatrices /\ ~OIIO_SIMD_SSE_defined
        => MatrixWithin(tmat, mat0, FloatZero)

\* The round trip of the rotation on an SSE build, with the reciprocal
\* below the exact one in the first call and above it in the second, has
\* not given back the bits of the matrix.
C23_Witness ==
    /\ op = "inverse_inverse"
    /\ OIIO_SIMD_SSE_defined
    /\ mat0[0][0] = Halves(39322, 16153)
    /\ tmat # mat0
    /\ nmat # mat0

-----------------------------------------------------------------------------
\* C29: every lane of abs (a) is non-negative and is the absolute value of
\* the lane of a, for every lane value, -2^31 included, on the
\* _mm_abs_epi32 path and the std::abs path alike.
C29_Abs ==
    op = "abs" =>
        \A i \in Lanes :
            /\ SignBit \notin res[i]
            /\ res[i] = IF SignBit \in x[i] THEN c_sub(IntZero, x[i]) ELSE x[i]

\* For every lane other than -2^31, abs is non-negative and the absolute
\* value on every build; for -2^31 the _mm_abs_epi32 path returns -2^31.
AbsOffMinimum ==
    op = "abs" =>
        \A i \in Lanes :
            IF x[i] # {SignBit}
            THEN /\ IntVal(res[i]) >= 0
                 /\ IntVal(res[i]) \in {IntVal(x[i]), -IntVal(x[i])}
            ELSE simd_sse >= 3 => res[i] = {SignBit}

-----------------------------------------------------------------------------
(* imagebufalgo_util.h: parallel_image                                     *)
(*                                                                         *)
(* A ROI is a record of its eight bounds.  The calling thread runs         *)
(* parallel_image statement by statement (pc); each thread of the          *)
(* thread_group runs f on the roi it was created with, and the threads     *)
(* interleave freely with the calling thread and with one another.         *)

Min(a, b) == IF a < b THEN a ELSE b
Max(a, b) == IF a > b THEN a ELSE b

ROI(xbegin, xend, ybegin, yend, zbegin, zend, chbegin, chend) ==
    [xbegin |-> xbegin, xend |-> xend, ybegin |-> ybegin, yend |-> yend,
     zbegin |-> zbegin, zend |-> zend, chbegin |-> chbegin, chend |-> chend]

\* ROI::width, height, depth and npixels, as parallel_image uses them.
ROI_width(r) == r.xend - r.xbegin
ROI_height(r) == r.yend - r.ybegin
ROI_depth(r) == r.zend - r.zbegin
ROI_npixels(r) == ROI_width(r) * ROI_height(r) * ROI_depth(r)

\* if (nthreads <= 0) OIIO::getattribute ("threads", nthreads);
resolved_nthreads(requested, attribute) == IF requested <= 0 THEN attribute ELSE requested

\* The test of the branch that runs f on the calling thread.
always_single(count, r) == count <= 1
one_thread(count, r) == count <= 1 \/ ROI_npixels(r) < 1000

\* int blocksize = std::max (1, (roi.height() + nthreads - 1) / nthreads);
blocksize(r, count) == Max(1, (ROI_height(r) + count - 1) \div count)

\* The bounds of band i: roi.ybegin and roi.yend as the loop sets them.
band_ybegin(roi_ybegin, k, size) == roi_ybegin + k * size
unclamped_yend(ybegin, size, roi_yend) == ybegin + size
band_yend(ybegin, size, roi_yend) == Min(ybegin + size, roi_yend)

\* What join_all waits for in a thread of the group.
thread_created(t) == TRUE
thread_done(t) == t.state = "finished"

\* The calls parallel_image is given.
MaxThreads == 3
MaxHeight == 5
Widths == {10, 250, 1000}
ParallelCalls ==
    {[roi |-> ROI(0, w, top, top + h, 0, 1, 0, 3), nthreads |-> requested] :
        w \in Widths, top \in {0, 7}, h \in 0 .. MaxHeight,
        requested \in -1 .. MaxThreads}

ParallelInit ==
    /\ simd_sse = 4
    /\ char_signed = TRUE
    /\ m = mask4_False
    /\ CallIdle
    /\ DispatchIdle
    /\ args \in ParallelCalls
    /\ threads_attribute \in 1 .. MaxThreads
    /\ pc = "entry"
    /\ nthreads = args.nthreads
    /\ roi = args.roi
    /\ locals = [blocksize |-> 0, roi_ybegin |-> 0, roi_yend |-> 0, i |-> 0]
    /\ threads = <<>>
    /\ joined = 0
    /\ calls = <<>>

ParallelFrame ==
    /\ SameBuild
    /\ UNCHANGED m
    /\ CallFrame
    /\ UNCHANGED DispatchVars
    /\ UNCHANGED <<args, threads_attribute>>

\* if (nthreads <= 0) OIIO::getattribute ("threads", nthreads);
ResolveThreads ==
    /\ pc = "entry"
    /\ nthreads' = resolved_nthreads(nthreads, threads_attribute)
    /\ pc' = "branch"
    /\ UNCHANGED <<roi, locals, threads, joined, calls>>
    /\ ParallelFrame

\* if (nthreads <= 1 || roi.npixels() < 1000) f (roi): the call of f.
CallHere ==
    /\ pc = "branch"
    /\ one_thread(nthreads, roi)
    /\ calls' = Append(calls, [roi |-> roi, by |-> 0, done |-> FALSE])
    /\ pc' = "f"
    /\ UNCHANGED <<nthreads, roi, locals, threads, joined>>
    /\ ParallelFrame

\* f (roi) returns to parallel_image, which returns.
ReturnHere ==
    /\ pc = "f"
    /\ calls' = [calls EXCEPT ![Len(calls)].done = TRUE]
    /\ pc' = "done"
    /\ UNCHANGED <<nthreads, roi, locals, threads, joined>>
    /\ ParallelFrame

\* The else branch up to the loop: blocksize, roi_ybegin, roi_yend, i = 0.
Divide ==
    /\ pc = "branch"
    /\ ~one_thread(nthreads, roi)
    /\ locals' = [blocksize |-> blocksize(roi, nthreads),
                  roi_ybegin |-> roi.ybegin, roi_yend |-> roi.yend, i |-> 0]
    /\ pc' = "loop"
    /\ UNCHANGED <<nthreads, roi, threads, joined, calls>>
    /\ ParallelFrame

\* The roi of iteration i of the loop.
band(r, l) ==
    LET ybegin == band_ybegin(l.roi_ybegin, l.i, l.blocksize)
    IN ROI(r.xbegin, r.xend, ybegin, band_yend(ybegin, l.blocksize, l.roi_yend),
           r.zbegin, r.zend, r.chbegin, r.chend)

\* One iteration that adds a thread: threads.add_thread (new boost::thread (f, roi)).
AddThread ==
    /\ pc = "loop"
    /\ locals.i < nthreads
    /\ band(roi, locals).ybegin < band(roi, locals).yend
    /\ roi' = band(roi, locals)
    /\ threads' = Append(threads, [roi |-> band(roi, locals), state |-> "created"])
    /\ locals' = [locals EXCEPT !.i = locals.i + 1]
    /\ UNCHANGED <<pc, nthreads, joined, calls>>
    /\ ParallelFrame

\* if (roi.ybegin >= roi.yend) break;
NoMoreWork ==
    /\ pc = "loop"
    /\ locals.i < nthreads
    /\ band(roi, locals).ybegin >= band(roi, locals).yend
    /\ roi' = band(roi, locals)
    /\ pc' = "join_all"
    /\ UNCHANGED <<nthreads, locals, threads, joined, calls>>
    /\ ParallelFrame

\* The loop ends with i = nthreads.
LoopEnd ==
    /\ pc = "loop"
    /\ locals.i >= nthreads
    /\ pc' = "join_all"
    /\ UNCHANGED <<nthreads, roi, locals, threads, joined, calls>>
    /\ ParallelFrame

\* threads.join_all (): the join of the next thread of the group, which
\* blocks until that thread is done.
JoinThread ==
    /\ pc = "join_all"
    /\ joined < Len(threads)
    /\ thread_done(threads[joined + 1])
    /\ joined' = joined + 1
    /\ UNCHANGED <<pc, nthreads, roi, locals, threads, calls>>
    /\ ParallelFrame

\* join_all has joined every thread; parallel_image returns.
ReturnJoined ==
    /\ pc = "join_all"
    /\ joined = Len(threads)
    /\ pc' = "done"
    /\ UNCHANGED <<nthreads, roi, locals, threads, joined, calls>>
    /\ ParallelFrame

\* Thread k of the group starts: it calls f on its copy of the roi.
ThreadCalls(k) ==
    /\ k <= Len(threads)
    /\ threads[k].state = "created"
    /\ threads' = [threads EXCEPT ![k].state = "running"]
    /\ calls' = Append(calls, [roi |-> threads[k].roi, by |-> k, done |-> FALSE])
    /\ UNCHANGED <<pc, nthreads, roi, locals, joined>>
    /\ ParallelFrame

\* f returns in thread k, and the thread ends.
ThreadReturns(k) ==
    /\ k <= Len(threads)
    /\ threads[k].state = "running"
    /\ threads' = [threads EXCEPT ![k].state = "finished"]
    /\ calls' = [c \in 1 .. Len(calls) |->
                    IF calls[c].by = k THEN [calls[c] EXCEPT !.done = TRUE] ELSE calls[c]]
    /\ UNCHANGED <<pc, nthreads, roi, locals, joined>>
    /\ ParallelFrame

ThreadStarts == \E k \in 1 .. MaxThreads + 1 : ThreadCalls(k)
ThreadEnds == \E k \in 1 .. MaxThreads + 1 : ThreadReturns(k)

CallerStep ==
    \/ ResolveThreads
    \/ CallHere
    \/ ReturnHere
    \/ Divide
    \/ AddThread
    \/ NoMoreWork
    \/ LoopEnd
    \/ JoinThread
    \/ ReturnJoined

ParallelNext ==
    \/ ResolveThreads
    \/ CallHere
    \/ ReturnHere
    \/ Divide
    \/ AddThread
    \/ NoMoreWork
    \/ LoopEnd
    \/ JoinThread
    \/ ReturnJoined
    \/ ThreadStarts
    \/ ThreadEnds

SpecParallel == ParallelInit /\ [][ParallelNext]_vars

\* The calling thread keeps running, f returns in the calling thread, and
\* every thread of the group is scheduled and its f returns.
ParallelFairness ==
    /\ WF_vars(CallerStep)
    /\ \A k \in 1 .. MaxThreads + 1 : WF_vars(ThreadCalls(k) \/ ThreadReturns(k))

SpecParallelFair == SpecParallel /\ ParallelFairness

-----------------------------------------------------------------------------
(* Properties of parallel_image *)

\* What the caller asked for: the thread count after the "threads"
\* attribute has replaced a count of 0 or less, and whether the call is one
\* of the many-threaded branch.
Resolved == IF args.nthreads <= 0 THEN threads_attribute ELSE args.nthreads
MultiThreaded == Resolved > 1 /\ ROI_npixels(args.roi) >= 1000
RowsOf(r) == r.ybegin .. r.yend - 1
Ceiling(a, b) == CHOOSE c \in 0 .. a : c * b >= a /\ (c - 1) * b < a
Bands == [k \in 1 .. Len(threads) |-> threads[k].roi]

\* C24: in the many-threaded branch (resolved nthreads > 1 and at least
\* 1000 pixels), once the loop is over the bands handed to the threads
\* partition the rows of the region: each band is non-empty, two bands share
\* no row, their union is [roi.ybegin, roi.yend), there are at most nthreads
\* of them, none has more than max(1, ceil(height / nthreads)) rows, and
\* each keeps the x, z and channel ranges of the region.
C24_BandsPartition ==
    (pc \in {"join_all", "done"} /\ MultiThreaded) =>
        /\ \A k \in DOMAIN Bands : RowsOf(Bands[k]) # {}
        /\ \A k, l \in DOMAIN Bands : k # l => RowsOf(Bands[k]) \cap RowsOf(Bands[l]) = {}
        /\ UNION {RowsOf(Bands[k]) : k \in DOMAIN Bands} = RowsOf(args.roi)
        /\ Len(threads) <= Resolved
        /\ \A k \in DOMAIN Bands :
               ROI_height(Bands[k]) <= Max(1, Ceiling(ROI_height(args.roi), Resolved))
        /\ \A k \in DOMAIN Bands :
               [Bands[k] EXCEPT !.ybegin = 0, !.yend = 0]
                   = [args.roi EXCEPT !.ybegin = 0, !.yend = 0]

\* The loop has handed 5 rows to 3 threads as bands of 2, 2 and 1 rows.
C24_Witness ==
    /\ pc = "done"
    /\ MultiThreaded
    /\ Len(threads) = 3
    /\ ROI_height(args.roi) = 5
    /\ ROI_height(threads[3].roi) = 1
    /\ args.roi.ybegin = 7

\* The loop stops before nthreads bands when the rows run out: 4 rows and
\* 3 threads give 2 bands of 2 rows.
BreakLeavesFewerBands ==
    (pc = "done" /\ MultiThreaded /\ ROI_height(args.roi) = 4 /\ Resolved = 3) =>
        Len(threads) = 2

\* The invocations of f made by thread k of the group.
CallsBy(k) == {c \in DOMAIN calls : calls[c].by = k}

\* At the return of parallel_image's many-threaded branch: every thread of
\* the group has finished, and f has been invoked once per band, on that
\* band, and has returned.
JoinedAtReturn ==
    (pc = "done" /\ MultiThreaded) =>
        /\ \A k \in DOMAIN threads : threads[k].state = "finished"
        /\ Len(calls) = Len(threads)
        /\ \A k \in DOMAIN threads :
               /\ Cardinality(CallsBy(k)) = 1
               /\ \A c \in CallsBy(k) : calls[c].roi = threads[k].roi /\ calls[c].done

\* C25: parallel_image returns only after every thread it created has
\* finished: whatever the interleaving, at the return f has been invoked
\* exactly once per band and each invocation has returned; and, f returning
\* in every thread, parallel_image does return.
C25_ReturnsAfterWorkers == [] JoinedAtReturn /\ <>(pc = "done")

\* parallel_image has returned from three threads that started f in an
\* order other than the one they were created in.
C25_Witness ==
    /\ pc = "done"
    /\ Len(threads) = 3
    /\ Len(calls) = 3
    /\ calls[1].by = 3
    /\ calls[3].by = 1

\* While parallel_image is in join_all, threads may still be running f.
RunningDuringJoin ==
    /\ pc = "join_all"
    /\ joined = 0
    /\ Len(threads) = 2
    /\ threads[1].state = "running"
    /\ threads[2].state = "created"

ThousandPixelsDivided ==
    (pc = "done" /\ Resolved = 3 /\ ROI_npixels(args.roi) = 1000) => Len(threads) >= 1

-----------------------------------------------------------------------------
(* imagebufalgo_util.h: the OIIO_DISPATCH macros                           *)
(*                                                                         *)
(* An image is its pixel type (UNKNOWN: not initialized), its pixels: what *)
(* they hold and the type they are stored as, and its error message.  A    *)
(* macro expansion yields ret, R, Rtmp and the calls of func it made: each *)
(* the template arguments and the image passed first.                      *)

Image(type, content, error) ==
    [type |-> type,
     pixels |-> IF type = "UNKNOWN" THEN "" ELSE [content |-> content, as |-> type],
     error |-> error]

\* The cases of the switch statements, with the template argument of each.
CommonTypes == {"FLOAT", "UINT8", "HALF", "UINT16"}
CommonCasesOnly == {"FLOAT", "UINT8", "HALF", "UINT16"}
DispatchedTypes == CommonTypes \cup {"INT8", "INT16", "UINT", "INT", "DOUBLE"}
ctype(t) ==
    CASE t = "FLOAT" -> "float"
      [] t = "UINT8" -> "unsigned char"
      [] t = "HALF" -> "half"
      [] t = "UINT16" -> "unsigned short"
      [] t = "INT8" -> "char"
      [] t = "INT16" -> "short"
      [] t = "UINT" -> "unsigned int"
      [] t = "INT" -> "int"
      [] t = "DOUBLE" -> "double"

\* ret = func<...> (image, ...): func returns true having written its
\* output to the image (allocating an uninitialized one as its first
\* template type), or returns false with its error message on the image,
\* the pixels as they were or partly written.
FuncOutcomes == {"true", "false", "false midway"}
FuncError == "func failed"
func_stored(first, image) ==
    IF image.type # "UNKNOWN" THEN image.type
    ELSE CHOOSE t \in DispatchedTypes : ctype(t) = first
func(targs, image, outcome) ==
    [ret |-> outcome = "true",
     image |-> CASE outcome = "true" ->
                        Image(func_stored(targs[1], image), "output", image.error)
                 [] outcome = "false" ->
                        [type |-> image.type, pixels |-> image.pixels, error |-> FuncError]
                 [] OTHER ->
                        Image(func_stored(targs[1], image), "partial", FuncError)]

\* ImageBuf::copy (src, format): the pixels of src converted to the format,
\* or to the type of the image copied into when no format is given; an
\* uninitialized image takes the type of src.
ImageBuf_copy(image, src, format) ==
    LET type == IF format # "UNKNOWN" THEN format
                ELSE IF image.type # "UNKNOWN" THEN image.type ELSE src.type
    IN IF src.type = "UNKNOWN" THEN Image("UNKNOWN", "", image.error)
       ELSE Image(type, src.pixels.content, image.error)

\* ImageBuf::error (format, ...): the message becomes the image's error.
ImageBuf_error(image, message) ==
    [type |-> image.type, pixels |-> image.pixels, error |-> message]
Unsupported(type) == <<"Unsupported pixel data format", type>>

Expansion(r, image, tmp, log) == [ret |-> r, R |-> image, Rtmp |-> tmp, invoked |-> log]
Call(targs, on) == [targs |-> targs, on |-> on]

\* OIIO_DISPATCH_TYPES(ret,name,func,type,R,...)
DISPATCH_TYPES(type, image, outcome) ==
    IF type \in DispatchedTypes
    THEN LET f == func(<<ctype(type)>>, image, outcome)
         IN Expansion(f.ret, f.image, NoImage, <<Call(<<ctype(type)>>, "R")>>)
    ELSE Expansion(FALSE, ImageBuf_error(image, Unsupported(type)), NoImage, <<>>)

\* OIIO_DISPATCH_TYPES2_HELP(ret,name,func,Rtype,Atype,R,...): Rtype is a
\* C++ type here.
DISPATCH_TYPES2_HELP(Rtype, Atype, image, outcome) ==
    IF Atype \in DispatchedTypes
    THEN LET f == func(<<Rtype, ctype(Atype)>>, image, outcome)
         IN Expansion(f.ret, f.image, NoImage, <<Call(<<Rtype, ctype(Atype)>>, "R")>>)
    ELSE Expansion(FALSE, ImageBuf_error(image, Unsupported(Atype)), NoImage, <<>>)

\* OIIO_DISPATCH_TYPES2(ret,name,func,Rtype,Atype,R,...)
DISPATCH_TYPES2(Rtype, Atype, image, outcome) ==
    IF Rtype \in DispatchedTypes
    THEN DISPATCH_TYPES2_HELP(ctype(Rtype), Atype, image, outcome)
    ELSE Expansion(FALSE, ImageBuf_error(image, Unsupported(Rtype)), NoImage, <<>>)

\* The default case of the COMMON_TYPES macros.  ImageBuf Rtmp; if
\* ((R).initialized()) Rtmp.copy (R, TypeDesc::FLOAT);
Rtmp_from(image) ==
    IF image.type # "UNKNOWN" THEN ImageBuf_copy(NoImage, image, "FLOAT") ELSE NoImage

\* if (ret) (R).copy (Rtmp); else (R).error ("%s", Rtmp.geterror());
copy_back(r, image, tmp, log) ==
    Expansion(r,
              IF r THEN ImageBuf_copy(image, tmp, "UNKNOWN")
              ELSE ImageBuf_error(image, tmp.error),
              tmp, log)

\* The template type of an image of a macro that converts the types it has
\* no case for to float.
common_ctype(t) == IF t \in CommonTypes THEN ctype(t) ELSE "float"

\* OIIO_DISPATCH_COMMON_TYPES(ret,name,func,type,R,...)
DISPATCH_COMMON_TYPES(type, image, outcome) ==
    IF type \in CommonTypes
    THEN LET f == func(<<ctype(type)>>, image, outcome)
         IN Expansion(f.ret, f.image, NoImage, <<Call(<<ctype(type)>>, "R")>>)
    ELSE LET f == func(<<"float">>, Rtmp_from(image), outcome)
         IN copy_back(f.ret, image, f.image, <<Call(<<"float">>, "Rtmp")>>)

\* OIIO_DISPATCH_COMMON_TYPES2_HELP(ret,name,func,Rtype,Atype,R,A,...):
\* Rtype is a C++ type here and `on` tells which image is passed as R; an A
\* of a type without a case is converted to the float image Atmp.
DISPATCH_COMMON_TYPES2_HELP(Rtype, Atype, on, image, outcome) ==
    LET f == func(<<Rtype, common_ctype(Atype)>>, image, outcome)
    IN Expansion(f.ret, f.image, NoImage, <<Call(<<Rtype, common_ctype(Atype)>>, on)>>)

\* OIIO_DISPATCH_COMMON_TYPES2(ret,name,func,Rtype,Atype,R,A,...)
DISPATCH_COMMON_TYPES2(Rtype, Atype, image, outcome) ==
    IF Rtype \in CommonTypes
    THEN DISPATCH_COMMON_TYPES2_HELP(ctype(Rtype), Atype, "R", image, outcome)
    ELSE LET e == DISPATCH_COMMON_TYPES2_HELP("float", Atype, "Rtmp",
                                              Rtmp_from(image), outcome)
         IN copy_back(e.ret, image, e.R, e.invoked)

\* OIIO_DISPATCH_COMMON_TYPES3_HELP2(ret,name,func,Rtype,Atype,Btype,R,A,B,...):
\* Atype and Btype are C++ types here.  The default case makes Rtmp as the
\* others do, and calls func<float,Atype,Btype> (R,A,B,...).
DISPATCH_COMMON_TYPES3_HELP2(Rtype, Atype, Btype, image, outcome) ==
    IF Rtype \in CommonTypes
    THEN LET f == func(<<ctype(Rtype), Atype, Btype>>, image, outcome)
         IN Expansion(f.ret, f.image, NoImage, <<Call(<<ctype(Rtype), Atype, Btype>>, "R")>>)
    ELSE LET f == func(<<"float", Atype, Btype>>, image, outcome)
         IN copy_back(f.ret, f.image, Rtmp_from(image), <<Call(<<"float", Atype, Btype>>, "R")>>)

\* OIIO_DISPATCH_COMMON_TYPES3_HELP(ret,name,func,Rtype,Atype,Btype,R,A,B,...)
DISPATCH_COMMON_TYPES3_HELP(Rtype, Atype, Btype, image, outcome) ==
    DISPATCH_COMMON_TYPES3_HELP2(Rtype, Atype, common_ctype(Btype), image, outcome)

\* OIIO_DISPATCH_COMMON_TYPES3(ret,name,func,Rtype,Atype,Btype,R,A,B,...)
DISPATCH_COMMON_TYPES3(Rtype, Atype, Btype, image, outcome) ==
    DISPATCH_COMMON_TYPES3_HELP(Rtype, common_ctype(Atype), Btype, image, outcome)

\* The pixel types of the images handed to the macros: the nine with a
\* case, two base types without one, and UNKNOWN.
PixelTypes ==
    {"FLOAT", "UINT8", "HALF", "UINT16", "INT8", "INT16", "UINT", "INT", "DOUBLE",
     "UINT64", "STRING", "UNKNOWN"}
OtherTypes == {"FLOAT", "HALF", "INT16", "UINT64", "UNKNOWN"}

DispatchInit ==
    /\ simd_sse = 4
    /\ char_signed = TRUE
    /\ m = mask4_False
    /\ CallIdle
    /\ ParallelIdle
    /\ macro = <<>>
    /\ \E t \in PixelTypes : R = Image(t, "input", "")
    /\ Rtmp = NoImage
    /\ ret = FALSE
    /\ invoked = <<>>

DispatchFrame ==
    /\ SameBuild
    /\ UNCHANGED m
    /\ CallFrame
    /\ UNCHANGED ParallelVars

\* The state after a macro: what it was given, and what its expansion left.
Expanded(name, Atype, Btype, outcome, e) ==
    /\ macro' = [name |-> name, Rtype |-> R.type, Atype |-> Atype, Btype |-> Btype,
                 outcome |-> outcome]
    /\ ret' = e.ret
    /\ R' = e.R
    /\ Rtmp' = e.Rtmp
    /\ invoked' = e.invoked
    /\ DispatchFrame

ExpandTypes ==
    /\ macro = <<>>
    /\ \E outcome \in FuncOutcomes :
        Expanded("OIIO_DISPATCH_TYPES", "", "", outcome,
                 DISPATCH_TYPES(R.type, R, outcome))

ExpandTypes2 ==
    /\ macro = <<>>
    /\ \E Atype \in PixelTypes, outcome \in FuncOutcomes :
        Expanded("OIIO_DISPATCH_TYPES2", Atype, "", outcome,
                 DISPATCH_TYPES2(R.type, Atype, R, outcome))

ExpandCommonTypes ==
    /\ macro = <<>>
    /\ \E outcome \in FuncOutcomes :
        Expanded("OIIO_DISPATCH_COMMON_TYPES", "", "", outcome,
                 DISPATCH_COMMON_TYPES(R.type, R, outcome))

ExpandCommonTypes2 ==
    /\ macro = <<>>
    /\ \E Atype \in PixelTypes, outcome \in FuncOutcomes :
        Expanded("OIIO_DISPATCH_COMMON_TYPES2", Atype, "", outcome,
                 DISPATCH_COMMON_TYPES2(R.type, Atype, R, outcome))

ExpandCommonTypes3 ==
    /\ macro = <<>>
    /\ \E Atype \in OtherTypes, Btype \in OtherTypes, outcome \in FuncOutcomes :
        Expanded("OIIO_DISPATCH_COMMON_TYPES3", Atype, Btype, outcome,
                 DISPATCH_COMMON_TYPES3(R.type, Atype, Btype, R, outcome))

DispatchNext ==
    \/ ExpandTypes
    \/ ExpandTypes2
    \/ ExpandCommonTypes
    \/ ExpandCommonTypes2
    \/ ExpandCommonTypes3

SpecDispatch == DispatchInit /\ [][DispatchNext]_vars

-----------------------------------------------------------------------------
(* Properties of the OIIO_DISPATCH macros *)

SupportedBaseTypes ==
    {"FLOAT", "UINT8", "HALF", "UINT16", "INT8", "INT16", "UINT", "INT", "DOUBLE"}
TypesMacros == {"OIIO_DISPATCH_TYPES", "OIIO_DISPATCH_TYPES2"}
CommonTypesMacros ==
    {"OIIO_DISPATCH_COMMON_TYPES", "OIIO_DISPATCH_COMMON_TYPES2",
     "OIIO_DISPATCH_COMMON_TYPES3"}
ExpandedOneOf(names) == macro # <<>> /\ macro.name \in names

\* The types the macro expanded dispatches on, R's first, and R as it was.
DispatchedOn ==
    CASE macro.name \in {"OIIO_DISPATCH_TYPES", "OIIO_DISPATCH_COMMON_TYPES"} ->
             <<macro.Rtype>>
      [] macro.name \in {"OIIO_DISPATCH_TYPES2", "OIIO_DISPATCH_COMMON_TYPES2"} ->
             <<macro.Rtype, macro.Atype>>
      [] OTHER -> <<macro.Rtype, macro.Atype, macro.Btype>>
PixelsBefore == Image(macro.Rtype, "input", "").pixels

\* C27: OIIO_DISPATCH_TYPES and OIIO_DISPATCH_TYPES2 with every dispatched
\* type among the nine supported ones invoke one specialization of func,
\* that of these types, once, on R, and ret is what it returned; with an
\* unsupported type func is not invoked, R's error is 'Unsupported pixel
\* data format' naming an unsupported type of the call, R's pixels are as
\* they were, and ret is false.
C27_TypesDispatch ==
    ExpandedOneOf(TypesMacros) =>
        IF \A k \in DOMAIN DispatchedOn : DispatchedOn[k] \in SupportedBaseTypes
        THEN /\ invoked = <<[targs |-> [k \in DOMAIN DispatchedOn |-> ctype(DispatchedOn[k])],
                             on |-> "R"]>>
             /\ ret = (macro.outcome = "true")
        ELSE /\ invoked = <<>>
             /\ ret = FALSE
             /\ R.error[1] = "Unsupported pixel data format"
             /\ \E k \in DOMAIN DispatchedOn :
                    /\ DispatchedOn[k] \notin SupportedBaseTypes
                    /\ R.error[2] = DispatchedOn[k]
             /\ R.pixels = PixelsBefore

\* OIIO_DISPATCH_TYPES2 on an int8 R and a double A has called
\* func<char,double>, which returned true.
C27_Witness ==
    /\ ExpandedOneOf({"OIIO_DISPATCH_TYPES2"})
    /\ macro.Rtype = "INT8"
    /\ macro.Atype = "DOUBLE"
    /\ invoked = <<[targs |-> <<"char", "double">>, on |-> "R"]>>
    /\ ret

\* With both types unsupported, OIIO_DISPATCH_TYPES2 names R's.
UnsupportedNamesFirst ==
    (ExpandedOneOf({"OIIO_DISPATCH_TYPES2"}) /\ macro.Rtype = "UINT64"
        /\ macro.Atype = "STRING") => R.error = Unsupported("UINT64")

\* What C26 states of one expansion: func<float,...> was the one call, on
\* Rtmp; after true, R holds func's output in R's type (an R that was not
\* initialized has none), after false R's pixels are as they were and R's
\* error is Rtmp's.
FallbackOnTemporary ==
    /\ Len(invoked) = 1
    /\ invoked[1].on = "Rtmp"
    /\ invoked[1].targs[1] = "float"
    /\ ret = (macro.outcome = "true")
    /\ ret => /\ R.pixels.content = "output"
              /\ macro.Rtype # "UNKNOWN" => R.type = macro.Rtype /\ R.pixels.as = macro.Rtype
    /\ ~ret => /\ R.pixels = PixelsBefore
               /\ R.error = Rtmp.error
               /\ R.error = FuncError

\* C26: in the 1-, 2- and 3-type OIIO_DISPATCH_COMMON_TYPES macros, an R of
\* a type other than float, uint8, half and uint16 has the float
\* specialization run on the float copy Rtmp, not on R; Rtmp is copied back
\* into R if func returned true, and else R keeps its pixels and gets
\* Rtmp's error.
C26_CommonFallback ==
    (ExpandedOneOf(CommonTypesMacros) /\ macro.Rtype \notin CommonTypes) =>
        FallbackOnTemporary

\* The 1- and 2-type forms do so.
OneAndTwoTypeFallback ==
    (ExpandedOneOf({"OIIO_DISPATCH_COMMON_TYPES", "OIIO_DISPATCH_COMMON_TYPES2"})
        /\ macro.Rtype \notin CommonTypes) => FallbackOnTemporary
OneAndTwoTypeFallen ==
    /\ ExpandedOneOf({"OIIO_DISPATCH_COMMON_TYPES2"})
    /\ macro.Rtype = "INT16"
    /\ macro.Atype = "UINT64"
    /\ invoked = <<[targs |-> <<"float", "float">>, on |-> "Rtmp"]>>
    /\ R = Image("INT16", "output", "")

\* The 3-type form runs func<float,...> on R itself: after true, R holds
\* the float copy of what it held before the call, and after false it has
\* whatever func left in it and Rtmp's error, which is empty.
ThreeTypeFallbackOnR ==
    (ExpandedOneOf({"OIIO_DISPATCH_COMMON_TYPES3"}) /\ macro.Rtype \notin CommonTypes) =>
        /\ Len(invoked) = 1
        /\ invoked[1].on = "R"
        /\ (ret /\ macro.Rtype # "UNKNOWN") => R.pixels.content = "input"
        /\ ~ret => R.error = ""
        /\ macro.outcome = "false midway" => R.pixels.content = "partial"
====
